---------------------------- MODULE Spec2Model ----------------------------
(***************************************************************************)
(* A model of spider-butter: the accept loop and worker pool of            *)
(* src/fileserver.rs, the resumable write of src/tcp_util.rs, the          *)
(* connection state machine, the command channel fed by src/main.rs and    *)
(* the certificate acquisition of src/cert.rs.                             *)
(*                                                                         *)
(* The module holds several specifications over disjoint groups of         *)
(* variables; each specification leaves the other groups untouched.        *)
(*   Spec       the worker pool with task identities (accept loop,         *)
(*              round-robin submit, continuation_thread passes)            *)
(*   SpecLoad   the accept loop and one worker by task counts, with the    *)
(*              program's own channel capacity and connection ceiling      *)
(*   SpecWrite  write_async over one buffer and one stream                 *)
(*   SpecCmd    one listener (fileserver::start), the command channel the  *)
(*              main thread feeds, and the snapshot each connection routes *)
(*              against                                                    *)
(*   SpecReq    one request: parse, redirect, encoding choice, routing and *)
(*              the response start_stream_process hands to the stream      *)
(*   SpecConn   one connection task (TLS upgrade, request read, response   *)
(*              writes) resumed by its worker while the clock advances;    *)
(*              FairSpecConn adds the fairness of the worker and the clock *)
(*   SpecCert   cert::acquire_certificate: the load of the persisted       *)
(*              bundle, the issuance by the ACME service and the writes of *)
(*              the new bundle                                             *)
(***************************************************************************)
EXTENDS Integers, Sequences, FiniteSets, TLC

(***************************************************************************)
(* Bounds of the model and constants of the program.                       *)
(***************************************************************************)
\* fileserver.rs:23
MAX_CONCURRENT_CONNECTIONS_PER_THREAD == 128
\* fileserver.rs:24
MAX_PENDING_CONNECTIONS_PER_THREAD == 128

\* number of worker threads of the pool modelled with task identities
\* (the program's NUM_WORKER_THREADS is 4; the pool code is the same for any
\* number of workers)
NumWorkers == 2
\* number of connections the accept loop accepts in a run of Spec
MaxConns == 4

\* number of connections that can be open at a time on the worker SpecLoad
\* observes (in its channel, in its Vec or in the accept loop's hands)
MaxOpen == 130

\* longest buffer handed to write_async in SpecWrite
MaxLen == 3
\* largest byte value of a buffer in SpecWrite
MaxByte == 1
\* number of stream.write calls followed in a run of SpecWrite
MaxWrites == 4

\* fileserver.rs:27
SSL_UPGRADE_TIMEOUT_SECS == 5
\* fileserver.rs:28
REQUEST_READ_TIMEOUT_SECS == 5
\* length of each buffer (404 response, response head, body) a connection of
\* SpecConn writes
RespLen == 2

\* number of domains (one HTTP challenge each) a certificate is asked for
NumDomains == 1
\* number of times the mapping file changes in a run of SpecCmd
MaxReloads == 1
\* number of connections the listener of SpecCmd accepts in a run
MaxAccepts == 2
\* longest Accept-Encoding list a request of SpecReq carries
MaxTokens == 2

\* cert.rs:27
RENEWAL_PERIOD_DAYS == 7
\* the persisted certificate expires within this many days of the renewal
\* period, before or after it
MaxDaysOff == 2
\* number of times the order is found Pending or Processing in a run of
\* SpecCert
MaxPolls == 2
\* number of times acquire_certificate is called in a run of SpecCert
MaxAttempts == 2
\* number of times the same request is served in a run of SpecHead
MaxServes == 3

Workers == 0 .. (NumWorkers - 1)
TaskIds == 1 .. MaxConns
NoTask == 0

VARIABLES
    \* ---- Spec: the pool with task identities ----
    rx,              \* rx[w]: the tasks pending in worker w's sync_channel
    coros,           \* coros[w]: the Vec of tasks worker w owns
    wpc,             \* wpc[w]: where continuation_thread of worker w stands
    iter,            \* iter[w]: position of `for c in coros.iter_mut()`
    valid,           \* valid[t]: Task.valid of task t
    created,         \* number of tasks the accept loop has built
    apc,             \* accept loop: "accept" (in listener.incoming) or "send"
    held,            \* the task the accept loop is sending (NoTask if none)
    worker_tx_iter,  \* the worker the cycling iterator yields next
    sentTo,          \* history: the workers each task was sent to, in order
    resumedBy,       \* history: the workers that called resume on each task
    calls,           \* history: resume calls on each task in its owner's current pass
    lateCalls,       \* history: resume calls on each task made after it finished
    drainedNow,      \* history: drainedNow[w]: tasks worker w drained in its current pass
    aborted,         \* history: tasks whose resume gave Some(Err(e)), which is printed
    \* ---- SpecLoad: the accept loop and worker 0, by counts ----
    qlen,            \* number of tasks pending in worker 0's sync_channel
    ncoros,          \* coros.len() of worker 0
    tpc,             \* where continuation_thread of worker 0 stands
    lpc,             \* accept loop: "accept" or "send"
    next_tx,         \* the worker the cycling iterator yields next
    \* ---- SpecWrite: write_async ----
    bytes,           \* the buffer handed to write_async
    cursor,          \* write_async's cursor
    gstate,          \* the generator: "created", "running", "suspended", "returned"
    wresult,         \* what the generator returned: "none", "ok", "err"
    wire,            \* the bytes the stream has accepted, in order
    outq,            \* bytes in the kernel's output queue (TIOCOUTQ)
    outcomes,        \* history: the outcome of every stream.write call so far
    \* ---- SpecConn: one connection task ----
    tls,             \* the task was built with an ssl_acceptor (TLS upgrade first)
    zombie,          \* the zombie_mode the task captured
    cpc,             \* where the task's generator stands
    cresult,         \* what the task returned: "none", "ok", "err"
    timer,           \* whole seconds since handshake_timer / read_start was taken
    status,          \* status of the response the task chose (0: none)
    left,            \* bytes of the current buffer write_async has not sent
    bufs,            \* buffers still to be written after the current one
    \* ---- SpecCmd: a listener and its command channel ----
    opts,            \* the options: secure, nocache; and which listener is observed
    mpc,             \* where the main thread stands
    signaled,        \* tokens whose challenge has been signaled ready (validate)
    reloads,         \* mapping-file changes seen so far
    started,         \* the observed listener's thread has been spawned
    command_rx,      \* commands sent to the observed listener and not yet taken
    history,         \* history: every command sent to the observed listener
    arcs,            \* the Arc<Mappings> allocated so far (the tables they hold)
    mappings,        \* the accept loop's `mappings`: an index into arcs
    ssl_acceptor,    \* the accept loop's ssl_acceptor: "none" or a certificate
    zombie_mode,     \* the accept loop's zombie_mode
    epc,             \* accept loop: "accept" or "send"
    nconn,           \* connections the loop has built a task for
    conn,            \* conn[c]: the task of connection c while it is in flight
    served,          \* the connection served last: its request and response
    took,            \* number of commands the last iteration of the loop took
    \* ---- SpecReq: one request on one connection task ----
    reqbuf,          \* what stream.read put in buf
    rmappings,       \* the task's mappings: the table behind its Arc
    rzombie,         \* the task's zombie_mode
    rpc,             \* where start_stream_process stands
    request,         \* the parsed http::Request
    encodings,       \* the sorted list of encodings the request offers
    response,        \* the response handed to the stream
    delivered,       \* the stream took the whole response
    rresult,         \* what the generator returned: "none", "ok" or "err"
    lookups,         \* calls of Mappings::get_route
    \* ---- SpecCert: acquire_certificate ----
    store,           \* the three files of the bundle, by path
    kpc,             \* where acquire_certificate stands
    issuance,        \* the operations of the issuance performed so far, in order
    fetched,         \* authorizations fetched in request_new_certificate
    readied,         \* challenges signalled ready
    polls,           \* times the order was fetched and found unfinished
    kcert,           \* the certificate in hand
    kresult,         \* what acquire_certificate returned
    order_status,    \* order.status as last fetched, "none" before
    attempts,        \* calls of acquire_certificate so far, this one included
    \* ---- SpecHead: send_data_async for one cached asset ----
    hroute,          \* the Mapping the request is routed to
    hencoding,       \* the encoding negotiated for the request
    answers          \* what each request so far was answered: head and body

poolVars == <<rx, coros, wpc, iter, valid, created, apc, held, worker_tx_iter,
              sentTo, resumedBy, calls, lateCalls, drainedNow, aborted>>

loadVars == <<qlen, ncoros, tpc, lpc, next_tx>>

writeVars == <<bytes, cursor, gstate, wresult, wire, outq, outcomes>>

connVars == <<tls, zombie, cpc, cresult, timer, status, left, bufs>>

cmdVars == <<opts, mpc, signaled, reloads, started, command_rx, history, arcs,
             mappings, ssl_acceptor, zombie_mode, epc, nconn, conn, served, took>>

reqVars == <<reqbuf, rmappings, rzombie, rpc, request, encodings, response,
             delivered, rresult, lookups>>

certVars == <<store, kpc, issuance, fetched, readied, polls, kcert, kresult,
              order_status, attempts>>

headVars == <<hroute, hencoding, answers>>

vars == <<poolVars, loadVars, writeVars, connVars, cmdVars, reqVars, certVars,
          headVars>>

(***************************************************************************)
(* Helpers on sequences.                                                   *)
(***************************************************************************)
Range(s) == {s[k] : k \in 1 .. Len(s)}

\* number of positions of s that hold x
Count(s, x) == Cardinality({k \in 1 .. Len(s) : s[k] = x})

RECURSIVE SumOver(_, _)
SumOver(S, f) ==
    IF S = {} THEN 0
    ELSE LET x == CHOOSE y \in S : TRUE IN f[x] + SumOver(S \ {x}, f)

(***************************************************************************)
(* Spec: the worker pool.                                                  *)
(***************************************************************************)
PoolInit ==
    /\ rx = [w \in Workers |-> <<>>]
    /\ coros = [w \in Workers |-> <<>>]
    /\ wpc = [w \in Workers |-> "recv"]
    /\ iter = [w \in Workers |-> 1]
    /\ valid = [t \in TaskIds |-> FALSE]
    /\ created = 0
    /\ apc = "accept"
    /\ held = NoTask
    /\ worker_tx_iter = 0
    /\ sentTo = [t \in TaskIds |-> <<>>]
    /\ resumedBy = [t \in TaskIds |-> {}]
    /\ calls = [t \in TaskIds |-> 0]
    /\ lateCalls = [t \in TaskIds |-> 0]
    /\ drainedNow = [w \in Workers |-> {}]
    /\ aborted = {}

\* sync_channel(MAX_PENDING_CONNECTIONS_PER_THREAD): send returns only when
\* the buffer has room
SendUnbounded(n) == TRUE
CanSend(n) == n < MAX_PENDING_CONNECTIONS_PER_THREAD

\* worker_tx_iter.next().unwrap().send(task): the channels after the send
SubmitToAll(chans, w, t) == [v \in Workers |-> Append(chans[v], t)]
submit_task(chans, w, t) == [chans EXCEPT ![w] = Append(@, t)]

\* worker_tx_list.into_iter().cycle(): the position after next()
SameWorker(i) == i
cycle_next(i) == (i + 1) % NumWorkers

\* Task::from(generator): valid, not yet resumed
\* the accept loop takes a stream from listener.incoming() and builds its task
AcceptStream ==
    /\ apc = "accept"
    /\ created < MaxConns
    /\ created' = created + 1
    /\ valid' = [valid EXCEPT ![created + 1] = TRUE]
    /\ held' = created + 1
    /\ apc' = "send"
    /\ UNCHANGED <<rx, coros, wpc, iter, worker_tx_iter, sentTo, resumedBy,
                   calls, lateCalls, drainedNow, aborted>>
    /\ UNCHANGED <<loadVars, writeVars, connVars, cmdVars, reqVars, certVars, headVars>>

\* submit_task: the send to the next worker of the cycle, blocking while full
SubmitTask ==
    /\ apc = "send"
    /\ CanSend(Len(rx[worker_tx_iter]))
    /\ rx' = submit_task(rx, worker_tx_iter, held)
    /\ sentTo' = [sentTo EXCEPT ![held] = Append(@, worker_tx_iter)]
    /\ worker_tx_iter' = cycle_next(worker_tx_iter)
    /\ held' = NoTask
    /\ apc' = "accept"
    /\ UNCHANGED <<coros, wpc, iter, valid, created, resumedBy, calls, lateCalls, drainedNow, aborted>>
    /\ UNCHANGED <<loadVars, writeVars, connVars, cmdVars, reqVars, certVars, headVars>>

\* rx.recv(): block until a task is pending, then own it
Recv(w) ==
    /\ wpc[w] = "recv"
    /\ rx[w] # <<>>
    /\ coros' = [coros EXCEPT ![w] = Append(@, Head(rx[w]))]
    /\ rx' = [rx EXCEPT ![w] = Tail(@)]
    /\ wpc' = [wpc EXCEPT ![w] = "pass"]
    /\ UNCHANGED <<iter, valid, created, apc, held, worker_tx_iter, sentTo,
                   resumedBy, calls, lateCalls, drainedNow, aborted>>
    /\ UNCHANGED <<loadVars, writeVars, connVars, cmdVars, reqVars, certVars, headVars>>

\* top of the processing loop: `if coros.len() < MAX_CONCURRENT...`
PassBegin(w) ==
    /\ wpc[w] = "pass"
    /\ wpc' = [wpc EXCEPT ![w] =
                 IF Len(coros[w]) < MAX_CONCURRENT_CONNECTIONS_PER_THREAD
                 THEN "drain" ELSE "resume"]
    /\ iter' = [iter EXCEPT ![w] = 1]
    /\ calls' = [t \in TaskIds |-> IF t \in Range(coros[w]) THEN 0 ELSE calls[t]]
    /\ drainedNow' = [drainedNow EXCEPT ![w] = {}]
    /\ UNCHANGED <<rx, coros, valid, created, apc, held, worker_tx_iter, sentTo,
                   resumedBy, lateCalls, aborted>>
    /\ UNCHANGED <<loadVars, writeVars, connVars, cmdVars, reqVars, certVars, headVars>>

\* one step of `for c in rx.try_iter() { coros.push(c) }`
DrainOne(w) ==
    /\ wpc[w] = "drain"
    /\ rx[w] # <<>>
    /\ coros' = [coros EXCEPT ![w] = Append(@, Head(rx[w]))]
    /\ rx' = [rx EXCEPT ![w] = Tail(@)]
    /\ drainedNow' = [drainedNow EXCEPT ![w] = @ \cup {Head(rx[w])}]
    /\ UNCHANGED <<wpc, iter, valid, created, apc, held, worker_tx_iter, sentTo,
                   resumedBy, calls, lateCalls, aborted>>
    /\ UNCHANGED <<loadVars, writeVars, connVars, cmdVars, reqVars, certVars, headVars>>

\* try_iter finds the channel empty: the drain ends
DrainEnd(w) ==
    /\ wpc[w] = "drain"
    /\ rx[w] = <<>>
    /\ wpc' = [wpc EXCEPT ![w] = "resume"]
    /\ UNCHANGED <<rx, coros, iter, valid, created, apc, held, worker_tx_iter,
                   sentTo, resumedBy, calls, lateCalls, drainedNow, aborted>>
    /\ UNCHANGED <<loadVars, writeVars, connVars, cmdVars, reqVars, certVars, headVars>>

\* Task::resume: an invalid task is not resumed; a generator that completes
\* clears valid
ResumeOutcomes == {"yield", "ok", "err"}
task_resume(v, outcome) == v /\ outcome = "yield"

\* the next position of `for c in coros.iter_mut()`
SkipNext(i) == i + 2
NextPosition(i) == i + 1

\* `c.resume()` for the task at the iterator's position
ResumeNext(w, outcome) ==
    /\ wpc[w] = "resume"
    /\ iter[w] <= Len(coros[w])
    /\ LET t == coros[w][iter[w]] IN
        /\ valid' = [valid EXCEPT ![t] = task_resume(@, outcome)]
        /\ resumedBy' = [resumedBy EXCEPT ![t] = @ \cup {w}]
        /\ calls' = [calls EXCEPT ![t] = @ + 1]
        /\ lateCalls' = [lateCalls EXCEPT ![t] = IF valid[t] THEN @ ELSE @ + 1]
        /\ aborted' = IF valid[t] /\ outcome = "err" THEN aborted \cup {t} ELSE aborted
    /\ iter' = [iter EXCEPT ![w] = NextPosition(@)]
    /\ UNCHANGED <<rx, coros, wpc, created, apc, held, worker_tx_iter, sentTo,
                   drainedNow>>
    /\ UNCHANGED <<loadVars, writeVars, connVars, cmdVars, reqVars, certVars, headVars>>

\* coros.retain(Task::is_valid)
RetainEverything(s, v) == s
RetainNothing(s, v) == <<>>
retain(s, v) == SelectSeq(s, LAMBDA t : v[t])

\* `if coros.is_empty() { break }`: back to rx.recv(), or sleep and pass again
AlwaysBreak(cs) == "recv"
after_pass(cs) == IF cs = <<>> THEN "recv" ELSE "sleep"

\* end of the pass: retain, then break to recv or sleep
PassEnd(w) ==
    /\ wpc[w] = "resume"
    /\ iter[w] > Len(coros[w])
    /\ coros' = [coros EXCEPT ![w] = retain(@, valid)]
    /\ wpc' = [wpc EXCEPT ![w] = after_pass(coros'[w])]
    /\ UNCHANGED <<rx, iter, valid, created, apc, held, worker_tx_iter, sentTo,
                   resumedBy, calls, lateCalls, drainedNow, aborted>>
    /\ UNCHANGED <<loadVars, writeVars, connVars, cmdVars, reqVars, certVars, headVars>>

\* thread::sleep(1ms), then the next pass
Sleep(w) ==
    /\ wpc[w] = "sleep"
    /\ wpc' = [wpc EXCEPT ![w] = "pass"]
    /\ UNCHANGED <<rx, coros, iter, valid, created, apc, held, worker_tx_iter,
                   sentTo, resumedBy, calls, lateCalls, drainedNow, aborted>>
    /\ UNCHANGED <<loadVars, writeVars, connVars, cmdVars, reqVars, certVars, headVars>>

PoolNext ==
    \/ AcceptStream
    \/ SubmitTask
    \/ \E w \in Workers : Recv(w)
    \/ \E w \in Workers : PassBegin(w)
    \/ \E w \in Workers : DrainOne(w)
    \/ \E w \in Workers : DrainEnd(w)
    \/ \E w \in Workers, o \in ResumeOutcomes : ResumeNext(w, o)
    \/ \E w \in Workers : PassEnd(w)
    \/ \E w \in Workers : Sleep(w)

(***************************************************************************)
(* SpecLoad: the accept loop and worker 0 by counts.  The tasks are not    *)
(* told apart, so the channel capacity and the ceiling keep the program's  *)
(* values.  The other workers take what is sent to them.                   *)
(***************************************************************************)
LoadInit ==
    /\ qlen = 0
    /\ ncoros = 0
    /\ tpc = "recv"
    /\ lpc = "accept"
    /\ next_tx = 0

\* listener.incoming() yields a stream; the loop builds its task
LoadAccept ==
    /\ lpc = "accept"
    /\ next_tx = 0 => qlen + ncoros < MaxOpen
    /\ lpc' = "send"
    /\ UNCHANGED <<qlen, ncoros, tpc, next_tx>>
    /\ UNCHANGED <<poolVars, writeVars, connVars, cmdVars, reqVars, certVars, headVars>>

\* submit_task: send to the next worker of the cycle, blocking while full
LoadSubmit ==
    /\ lpc = "send"
    /\ IF next_tx = 0
       THEN CanSend(qlen) /\ qlen' = qlen + 1
       ELSE qlen' = qlen
    /\ next_tx' = (next_tx + 1) % NumWorkers
    /\ lpc' = "accept"
    /\ UNCHANGED <<ncoros, tpc>>
    /\ UNCHANGED <<poolVars, writeVars, connVars, cmdVars, reqVars, certVars, headVars>>

\* rx.recv()
LoadRecv ==
    /\ tpc = "recv"
    /\ qlen > 0
    /\ qlen' = qlen - 1
    /\ ncoros' = ncoros + 1
    /\ tpc' = "pass"
    /\ UNCHANGED <<lpc, next_tx>>
    /\ UNCHANGED <<poolVars, writeVars, connVars, cmdVars, reqVars, certVars, headVars>>

\* `if coros.len() < MAX_CONCURRENT_CONNECTIONS_PER_THREAD`
LoadPassBegin ==
    /\ tpc = "pass"
    /\ tpc' = IF ncoros < MAX_CONCURRENT_CONNECTIONS_PER_THREAD
              THEN "drain" ELSE "resume"
    /\ UNCHANGED <<qlen, ncoros, lpc, next_tx>>
    /\ UNCHANGED <<poolVars, writeVars, connVars, cmdVars, reqVars, certVars, headVars>>

\* one step of `for c in rx.try_iter() { coros.push(c) }`
LoadDrainOne ==
    /\ tpc = "drain"
    /\ qlen > 0
    /\ qlen' = qlen - 1
    /\ ncoros' = ncoros + 1
    /\ UNCHANGED <<tpc, lpc, next_tx>>
    /\ UNCHANGED <<poolVars, writeVars, connVars, cmdVars, reqVars, certVars, headVars>>

LoadDrainEnd ==
    /\ tpc = "drain"
    /\ qlen = 0
    /\ tpc' = "resume"
    /\ UNCHANGED <<qlen, ncoros, lpc, next_tx>>
    /\ UNCHANGED <<poolVars, writeVars, connVars, cmdVars, reqVars, certVars, headVars>>

\* the resume loop and retain: k of the owned tasks finish in this pass
LoadResumeAll(k) ==
    /\ tpc = "resume"
    /\ ncoros' = ncoros - k
    /\ tpc' = IF ncoros' = 0 THEN "recv" ELSE "sleep"
    /\ UNCHANGED <<qlen, lpc, next_tx>>
    /\ UNCHANGED <<poolVars, writeVars, connVars, cmdVars, reqVars, certVars, headVars>>

LoadSleep ==
    /\ tpc = "sleep"
    /\ tpc' = "pass"
    /\ UNCHANGED <<qlen, ncoros, lpc, next_tx>>
    /\ UNCHANGED <<poolVars, writeVars, connVars, cmdVars, reqVars, certVars, headVars>>

LoadNext ==
    \/ LoadAccept
    \/ LoadSubmit
    \/ LoadRecv
    \/ LoadPassBegin
    \/ LoadDrainOne
    \/ LoadDrainEnd
    \/ \E k \in 0 .. ncoros : LoadResumeAll(k)
    \/ LoadSleep

(***************************************************************************)
(* SpecWrite: write_async(stream, bytes).  Every call of stream.write is   *)
(* a step whose outcome the stream chooses.                                *)
(***************************************************************************)
Buffers == UNION {[1 .. n -> 0 .. MaxByte] : n \in 0 .. MaxLen}

WriteInit ==
    /\ bytes \in Buffers
    /\ cursor = 0
    /\ gstate = "created"
    /\ wresult = "none"
    /\ wire = <<>>
    /\ outq = 0
    /\ outcomes = <<>>

\* &bytes[cursor..]
WholeBuffer(b, c) == b
Suffix(b, c) == SubSeq(b, c + 1, Len(b))

\* TcpStreamExt::has_pending_writes: ioctl(TIOCOUTQ) > 0
has_pending_writes(pending) == pending > 0

\* the task that awaits write_async is resumed by its worker
WriteResume ==
    /\ gstate \in {"created", "suspended"}
    /\ gstate' = "running"
    /\ UNCHANGED <<bytes, cursor, wresult, wire, outq, outcomes>>
    /\ UNCHANGED <<poolVars, loadVars, connVars, cmdVars, reqVars, certVars, headVars>>

\* stream.write(&bytes[cursor..]) returns Ok(sz): `cursor += sz`, then break
\* when the cursor has reached the end, else `continue`
WriteOk(sz) ==
    /\ gstate = "running"
    /\ Len(outcomes) < MaxWrites
    /\ sz \in 0 .. Len(Suffix(bytes, cursor))
    /\ cursor' = cursor + sz
    /\ wire' = wire \o SubSeq(Suffix(bytes, cursor), 1, sz)
    /\ outq' = outq + sz
    /\ IF cursor' >= Len(bytes)
       THEN gstate' = "returned" /\ wresult' = "ok"
            /\ outcomes' = Append(outcomes, "all")
       ELSE gstate' = "running" /\ wresult' = wresult
            /\ outcomes' = Append(outcomes, "short")
    /\ UNCHANGED bytes
    /\ UNCHANGED <<poolVars, loadVars, connVars, cmdVars, reqVars, certVars, headVars>>

\* Err(WouldBlock) => yield, Err(Interrupted) => yield
WriteNotReady(kind) ==
    /\ gstate = "running"
    /\ Len(outcomes) < MaxWrites
    /\ kind \in {"wouldblock", "interrupted"}
    /\ gstate' = "suspended"
    /\ outcomes' = Append(outcomes, kind)
    /\ UNCHANGED <<bytes, cursor, wresult, wire, outq>>
    /\ UNCHANGED <<poolVars, loadVars, connVars, cmdVars, reqVars, certVars, headVars>>

\* Err(e) => return Err(e.into())
WriteError ==
    /\ gstate = "running"
    /\ Len(outcomes) < MaxWrites
    /\ gstate' = "returned"
    /\ wresult' = "err"
    /\ outcomes' = Append(outcomes, "error")
    /\ UNCHANGED <<bytes, cursor, wire, outq>>
    /\ UNCHANGED <<poolVars, loadVars, connVars, cmdVars, reqVars, certVars, headVars>>

\* the kernel transmits a byte of its output queue
KernelSend ==
    /\ has_pending_writes(outq)
    /\ outq' = outq - 1
    /\ UNCHANGED <<bytes, cursor, gstate, wresult, wire, outcomes>>
    /\ UNCHANGED <<poolVars, loadVars, connVars, cmdVars, reqVars, certVars, headVars>>

WriteNext ==
    \/ WriteResume
    \/ \E sz \in 0 .. MaxLen : WriteOk(sz)
    \/ \E kind \in {"wouldblock", "interrupted"} : WriteNotReady(kind)
    \/ WriteError
    \/ KernelSend

(***************************************************************************)
(* SpecConn: one connection task.  cpc is "created" before the first       *)
(* resume, "hs" / "read" / "write" while the generator runs and is about   *)
(* to make that call, "hs_yield" / "read_yield" / "write_yield" while it   *)
(* is suspended there, and "done" once it has returned.                    *)
(***************************************************************************)
\* the timer saturates: a longer wait is not told apart from this one
TimerCap == REQUEST_READ_TIMEOUT_SECS + 1

ConnInit ==
    /\ tls \in BOOLEAN
    /\ zombie \in BOOLEAN
    /\ cpc = "created"
    /\ cresult = "none"
    /\ timer = 0
    /\ status = 0
    /\ left = 0
    /\ bufs = 0

\* `handshake_timer.elapsed().as_secs() >= SSL_UPGRADE_TIMEOUT_SECS`
LateByOne(elapsed) == elapsed > SSL_UPGRADE_TIMEOUT_SECS
handshake_timed_out(elapsed) == elapsed >= SSL_UPGRADE_TIMEOUT_SECS
\* `read_start.elapsed().as_secs() > REQUEST_READ_TIMEOUT_SECS`
read_timed_out(elapsed) == elapsed > REQUEST_READ_TIMEOUT_SECS

\* the generator returns
Return(r) == cpc' = "done" /\ cresult' = r

\* Task::resume by the owning worker: the generator runs on from where it
\* was suspended; the first resume starts the TLS upgrade or the read
ConnResume ==
    /\ cpc \in {"created", "hs_yield", "read_yield", "write_yield"}
    /\ cpc' = CASE cpc = "created" -> (IF tls THEN "hs" ELSE "read")
                 [] cpc = "hs_yield" -> "hs"
                 [] cpc = "read_yield" -> "read"
                 [] cpc = "write_yield" -> "write"
    /\ timer' = IF cpc = "created" THEN 0 ELSE timer
    /\ UNCHANGED <<tls, zombie, cresult, status, left, bufs>>
    /\ UNCHANGED <<poolVars, loadVars, writeVars, cmdVars, reqVars, certVars, headVars>>

\* acceptor.accept(stream) / inprogress_stream.handshake(), then the test of
\* the while loop: would-block yields unless the time is up, success goes
\* on to start_stream_process (read_start is taken), a failure returns it
HandshakeCall(outcome) ==
    /\ cpc = "hs"
    /\ outcome \in {"wouldblock", "ok", "failure"}
    /\ CASE outcome = "wouldblock" ->
              IF handshake_timed_out(timer)
              THEN Return("err") /\ timer' = timer
              ELSE cpc' = "hs_yield" /\ UNCHANGED <<cresult, timer>>
         [] outcome = "ok" -> cpc' = "read" /\ timer' = 0 /\ UNCHANGED cresult
         [] outcome = "failure" -> Return("err") /\ timer' = timer
    /\ UNCHANGED <<tls, zombie, status, left, bufs>>
    /\ UNCHANGED <<poolVars, loadVars, writeVars, cmdVars, reqVars, certVars, headVars>>

\* stream.read(&mut buf) fails or returns Ok(0): would-block yields unless
\* the time is up, anything else returns an error
ReadFails(outcome) ==
    /\ cpc = "read"
    /\ outcome \in {"wouldblock", "error", "zero"}
    /\ IF outcome = "wouldblock" /\ ~read_timed_out(timer)
       THEN cpc' = "read_yield" /\ UNCHANGED cresult
       ELSE Return("err")
    /\ UNCHANGED <<tls, zombie, timer, status, left, bufs>>
    /\ UNCHANGED <<poolVars, loadVars, writeVars, cmdVars, reqVars, certVars, headVars>>

\* stream.read returns a request that does not parse: 400 by write_all,
\* whose result is dropped, then `return Err(e)`
ReadMalformed ==
    /\ cpc = "read"
    /\ status' = 400
    /\ Return("err")
    /\ UNCHANGED <<tls, zombie, timer, left, bufs>>
    /\ UNCHANGED <<poolVars, loadVars, writeVars, cmdVars, reqVars, certVars, headVars>>

\* a well-formed request on a zombie task for a path outside the ACME
\* challenges: 301 by write_all, then `return Ok(())`
ReadRedirected ==
    /\ cpc = "read"
    /\ zombie
    /\ status' = 301
    /\ Return("ok")
    /\ UNCHANGED <<tls, zombie, timer, left, bufs>>
    /\ UNCHANGED <<poolVars, loadVars, writeVars, cmdVars, reqVars, certVars, headVars>>

\* a well-formed request that is routed (acme is whether it names an ACME
\* challenge path): a miss writes the 404 by write_async; a hit whose body
\* cannot be had returns the error of get_encoding; a hit writes the head
\* and then the body by write_async
ReadRouted(acme, route) ==
    /\ cpc = "read"
    /\ zombie => acme
    /\ route \in {"miss", "hit", "unreadable"}
    /\ CASE route = "miss" ->
              /\ status' = 404 /\ left' = RespLen /\ bufs' = 0
              /\ cpc' = "write" /\ UNCHANGED cresult
         [] route = "hit" ->
              /\ status' = 200 /\ left' = RespLen /\ bufs' = 1
              /\ cpc' = "write" /\ UNCHANGED cresult
         [] route = "unreadable" ->
              /\ Return("err") /\ UNCHANGED <<status, left, bufs>>
    /\ UNCHANGED <<tls, zombie, timer>>
    /\ UNCHANGED <<poolVars, loadVars, writeVars, cmdVars, reqVars, certVars, headVars>>

\* stream.write(&bytes[cursor..]) returns Ok(sz) with sz > 0: the cursor
\* moves on; at the end of the buffer write_async returns and the task goes
\* on to the next buffer or returns Ok(())
ConnWriteOk(sz) ==
    /\ cpc = "write"
    /\ sz \in 1 .. left
    /\ IF sz < left
       THEN left' = left - sz /\ UNCHANGED <<cpc, cresult, bufs>>
       ELSE IF bufs > 0
            THEN left' = RespLen /\ bufs' = bufs - 1 /\ UNCHANGED <<cpc, cresult>>
            ELSE left' = 0 /\ Return("ok") /\ UNCHANGED bufs
    /\ UNCHANGED <<tls, zombie, timer, status>>
    /\ UNCHANGED <<poolVars, loadVars, writeVars, cmdVars, reqVars, certVars, headVars>>

\* stream.write fails: would-block and interrupted yield, any other error
\* is returned
ConnWriteFails(outcome) ==
    /\ cpc = "write"
    /\ outcome \in {"wouldblock", "interrupted", "error"}
    /\ IF outcome = "error"
       THEN Return("err")
       ELSE cpc' = "write_yield" /\ UNCHANGED cresult
    /\ UNCHANGED <<tls, zombie, timer, status, left, bufs>>
    /\ UNCHANGED <<poolVars, loadVars, writeVars, cmdVars, reqVars, certVars, headVars>>

\* a second passes on the clock the running timer reads
Tick ==
    /\ cpc \in {"hs", "hs_yield", "read", "read_yield"}
    /\ timer < TimerCap
    /\ timer' = timer + 1
    /\ UNCHANGED <<tls, zombie, cpc, cresult, status, left, bufs>>
    /\ UNCHANGED <<poolVars, loadVars, writeVars, cmdVars, reqVars, certVars, headVars>>

\* the steps of the task and of the worker that resumes it
ConnStep ==
    \/ ConnResume
    \/ \E o \in {"wouldblock", "ok", "failure"} : HandshakeCall(o)
    \/ \E o \in {"wouldblock", "error", "zero"} : ReadFails(o)
    \/ ReadMalformed
    \/ ReadRedirected
    \/ \E acme \in BOOLEAN, route \in {"miss", "hit", "unreadable"} :
          ReadRouted(acme, route)
    \/ \E sz \in 1 .. RespLen : ConnWriteOk(sz)
    \/ \E o \in {"wouldblock", "interrupted", "error"} : ConnWriteFails(o)

ConnNext == ConnStep \/ Tick

(***************************************************************************)
(* SpecCmd: one listener, the main thread that sends it commands, and the  *)
(* connections it accepts.  A path is a pair: the text before the last     *)
(* path segment and a number standing for the segment.                     *)
(***************************************************************************)
Tokens == 1 .. NumDomains
ConnIds == 1 .. MaxAccepts

\* format!("/.well-known/acme-challenge/{}", token)
AcmePath(t) == <<"/.well-known/acme-challenge/", t>>
IndexPath == <<"/index.html", 0>>
OldPath == <<"/old.html", 0>>
Uris == {AcmePath(t) : t \in Tokens} \cup {IndexPath, OldPath}

\* request.uri().contains("/.well-known/acme-challenge")
NeverExempt(uri) == FALSE
is_acme_challenge(uri) == uri[1] = "/.well-known/acme-challenge/"

\* the key authorization of a challenge, and the bytes of a mapped file
KeyAuth(t) == <<"key-authorization", t>>
FileData(path) == <<"file", IF path = IndexPath THEN 1 ELSE 2>>

\* Mappings::new(caching_enabled)
NewTable(caching) == [caching |-> caching, routes |-> <<>>, file_cache |-> <<>>]

\* the extension of function f by key k with value v
Insert(f, k, v) == [x \in DOMAIN f \cup {k} |-> IF x = k THEN v ELSE f[x]]

\* Mappings::insert_data_mapping(key, data): a cache entry and a route, both
\* under the key
insert_data_mapping(table, key, data) ==
    [table EXCEPT !.file_cache = Insert(@, key, data),
                  !.routes = Insert(@, key, key)]

\* the table try_get_certificates / request_new_certificate builds:
\* Mappings::new(true) with one data mapping per challenge
RECURSIVE AcmeTableOf(_)
AcmeTableOf(tokens) ==
    IF tokens = {} THEN NewTable(TRUE)
    ELSE LET t == CHOOSE x \in tokens : TRUE IN
         insert_data_mapping(AcmeTableOf(tokens \ {t}), AcmePath(t), KeyAuth(t))

\* Mappings::from_file(MAPPINGS_FILENAME, !nocache) for a mapping file that
\* routes the uris of `routed` to themselves; with caching the files are
\* read and cached when the table is built
SiteTable(routed, caching) ==
    [caching |-> caching,
     routes |-> [u \in routed |-> u],
     file_cache |-> IF caching THEN [u \in routed |-> FileData(u)] ELSE <<>>]

\* what the mapping file holds after its n-th change: every other change
\* removes, or brings back, the route of OldPath
SiteRoutes(n) == IF n % 2 = 0 THEN {IndexPath, OldPath} ELSE {IndexPath}

Commands ==
    [type : {"NewMappings"}, table : {AcmeTableOf(Tokens)}
                                      \cup {SiteTable(SiteRoutes(n), c) :
                                               n \in 0 .. 1, c \in BOOLEAN}]
    \cup {[type |-> "SetCert", cert |-> "cert"], [type |-> "Zombify"]}

\* the encodings a request can offer, and the choice among them
Offers == SUBSET {"gzip", "deflate"}
negotiate(offered) ==
    IF "gzip" \in offered THEN "Gzip"
    ELSE IF "deflate" \in offered THEN "Deflate" ELSE "Uncompressed"

\* MappedAsset::get_encoding: the data as it is, or compressed
StoredAsIs(data, encoding) == [encoding |-> "Uncompressed", data |-> data]
get_encoding(data, encoding) == [encoding |-> encoding, data |-> data]
\* what a client that undoes the Content-Encoding reads
Decoded(body) == body.data

NoBody == [encoding |-> "Uncompressed", data |-> <<"", 0>>]
NoResponse == [status |-> 0, location |-> <<"", 0>>, body |-> NoBody]

\* what start_stream_process answers to a well-formed GET for uri, routed
\* against `table` with the captured zombie flag; `readable` is whether an
\* uncached asset's file can be read when it is served
Respond(table, zombie_flag, uri, offered, readable) ==
    IF zombie_flag /\ ~is_acme_challenge(uri)
    THEN [status |-> 301, location |-> uri, body |-> NoBody]
    ELSE IF uri \notin DOMAIN table.routes
    THEN [status |-> 404, location |-> <<"", 0>>, body |-> NoBody]
    ELSE LET path == table.routes[uri] IN
         IF table.caching
         THEN IF path \in DOMAIN table.file_cache
              THEN [status |-> 200, location |-> <<"", 0>>,
                    body |-> get_encoding(table.file_cache[path], negotiate(offered))]
              ELSE [status |-> 404, location |-> <<"", 0>>, body |-> NoBody]
         ELSE IF readable
              THEN [status |-> 200, location |-> <<"", 0>>,
                    body |-> get_encoding(FileData(path), negotiate(offered))]
              ELSE NoResponse

\* a stream_task: where it stands and the clones it was built with;
\* table0 and signaled0 record the table behind `mappings` and the
\* challenges signaled when it was built
\* serving uri needs a file to be read: the request is routed, not
\* redirected, and the table does not cache
reads_file(table, zombie_flag, uri) ==
    /\ ~(zombie_flag /\ ~is_acme_challenge(uri))
    /\ uri \in DOMAIN table.routes
    /\ ~table.caching

NoConn ==
    [st |-> "none", mappings |-> 0, zombie_mode |-> FALSE, acceptor |-> "none",
     table0 |-> NewTable(FALSE), signaled0 |-> {}]

\* a request and the response to it; whether the request is for a
\* challenge that had been signaled when its connection was accepted,
\* whether the loop had installed another table and turned redirecting on
\* between the building of the task and the response, and whether the
\* request is for a path that the table installed before the task's routed
\* and the task's does not
NoRequest ==
    [st |-> "none", uri |-> <<"", 0>>, offered |-> {}, resp |-> NoResponse,
     afterSignal |-> FALSE, overtaken |-> FALSE, replaced |-> FALSE]

\* the accept loop before its first iteration: Mappings::new(false), no
\* acceptor, zombie_mode = false
InitialLoopState ==
    [arcs |-> <<NewTable(FALSE)>>, mappings |-> 1, ssl_acceptor |-> "none",
     zombie_mode |-> FALSE]

CmdInit ==
    /\ opts \in {o \in [secure : BOOLEAN, nocache : BOOLEAN, listener : {"plain", "tls"}] :
                    o.listener = "tls" => o.secure}
    /\ mpc = IF opts.secure THEN "challenges" ELSE "mappings"
    /\ signaled = {}
    /\ reloads = 0
    /\ started = (opts.listener = "plain")
    /\ command_rx = <<>>
    /\ history = <<>>
    /\ arcs = InitialLoopState.arcs
    /\ mappings = InitialLoopState.mappings
    /\ ssl_acceptor = InitialLoopState.ssl_acceptor
    /\ zombie_mode = InitialLoopState.zombie_mode
    /\ epc = "accept"
    /\ nconn = 0
    /\ conn = [c \in ConnIds |-> NoConn]
    /\ served = NoRequest
    /\ took = 0

\* tx.send(command) on the channel of listener `to`: the observed listener's
\* channel grows, the other listener's is not modelled
Send(to, command) ==
    IF to = opts.listener
    THEN /\ command_rx' = Append(command_rx, command)
         /\ history' = Append(history, command)
    ELSE UNCHANGED <<command_rx, history>>

\* main, secure branch: try_get_certificates builds the challenge table and
\* sends it to the plaintext listener, then sleeps
MainSendChallenges ==
    /\ mpc = "challenges"
    /\ Send("plain", [type |-> "NewMappings", table |-> AcmeTableOf(Tokens)])
    /\ mpc' = "validate"
    /\ UNCHANGED <<opts, signaled, reloads, started, arcs, mappings, ssl_acceptor,
                   zombie_mode, epc, nconn, conn, served, took>>
    /\ UNCHANGED <<poolVars, loadVars, writeVars, connVars, reqVars, certVars, headVars>>

\* challenge.validate() / client.signal_challenge_ready(challenge) for the
\* next challenge: the ACME service is told the challenge is ready
MainValidate(t) ==
    /\ mpc = "validate"
    /\ t \in Tokens \ signaled
    /\ \A u \in Tokens \ signaled : t <= u
    /\ signaled' = signaled \cup {t}
    /\ mpc' = IF signaled' = Tokens THEN "setcert" ELSE "validate"
    /\ UNCHANGED <<opts, reloads, started, command_rx, history, arcs, mappings,
                   ssl_acceptor, zombie_mode, epc, nconn, conn, served, took>>
    /\ UNCHANGED <<poolVars, loadVars, writeVars, connVars, reqVars, certVars, headVars>>

\* a `?` of try_get_certificates or of the save fails: main returns the error
\* and the process ends
MainFails ==
    /\ mpc \in {"challenges", "validate", "setcert"}
    /\ mpc' = "exited"
    /\ UNCHANGED <<opts, signaled, reloads, started, command_rx, history, arcs,
                   mappings, ssl_acceptor, zombie_mode, epc, nconn, conn, served, took>>
    /\ UNCHANGED <<poolVars, loadVars, writeVars, connVars, reqVars, certVars, headVars>>

\* the certificate is signed and saved: SetCert is queued for the TLS
\* listener, whose thread is then spawned
MainSetCert ==
    /\ mpc = "setcert"
    /\ Send("tls", [type |-> "SetCert", cert |-> "cert"])
    /\ started' = TRUE
    /\ mpc' = "zombify"
    /\ UNCHANGED <<opts, signaled, reloads, arcs, mappings, ssl_acceptor,
                   zombie_mode, epc, nconn, conn, served, took>>
    /\ UNCHANGED <<poolVars, loadVars, writeVars, connVars, reqVars, certVars, headVars>>

\* fs_command_tx.send(Zombify); from here on fs_command_tx is the TLS
\* listener's sender
MainZombify ==
    /\ mpc = "zombify"
    /\ Send("plain", [type |-> "Zombify"])
    /\ mpc' = "mappings"
    /\ UNCHANGED <<opts, signaled, reloads, started, arcs, mappings, ssl_acceptor,
                   zombie_mode, epc, nconn, conn, served, took>>
    /\ UNCHANGED <<poolVars, loadVars, writeVars, connVars, reqVars, certVars, headVars>>

\* the listener fs_command_tx sends to once the startup is over
MappingsTarget == IF opts.secure THEN "tls" ELSE "plain"

\* Mappings::from_file at startup and after each change of the mapping
\* file: the table is sent, or the error is printed
MainLoadMappings(readOk) ==
    /\ mpc \in {"mappings", "watch"}
    /\ mpc = "watch" => reloads < MaxReloads
    /\ reloads' = IF mpc = "watch" THEN reloads + 1 ELSE reloads
    /\ IF readOk
       THEN Send(MappingsTarget,
                 [type |-> "NewMappings",
                  table |-> SiteTable(SiteRoutes(reloads'), ~opts.nocache)])
       ELSE UNCHANGED <<command_rx, history>>
    /\ mpc' = "watch"
    /\ UNCHANGED <<opts, signaled, started, arcs, mappings, ssl_acceptor,
                   zombie_mode, epc, nconn, conn, served, took>>
    /\ UNCHANGED <<poolVars, loadVars, writeVars, connVars, reqVars, certVars, headVars>>

\* the state of the accept loop that commands change
LoopState == [arcs |-> arcs, mappings |-> mappings, ssl_acceptor |-> ssl_acceptor,
              zombie_mode |-> zombie_mode]

\* NewMappings: `mappings = Arc::new(new_mappings)`, a new allocation
OverwriteShared(ls, table) == [ls EXCEPT !.arcs[ls.mappings] = table]
KeepOldRoutes(ls, table) ==
    LET old == ls.arcs[ls.mappings]
        merged == [table EXCEPT !.routes =
                      [u \in DOMAIN old.routes \cup DOMAIN table.routes |->
                          IF u \in DOMAIN table.routes THEN table.routes[u]
                          ELSE old.routes[u]]]
    IN  [ls EXCEPT !.arcs = Append(@, merged), !.mappings = Len(ls.arcs) + 1]
install_mappings(ls, table) ==
    [ls EXCEPT !.arcs = Append(@, table), !.mappings = Len(ls.arcs) + 1]

\* one arm of `match command`
apply_command(ls, command) ==
    CASE command.type = "NewMappings" -> install_mappings(ls, command.table)
      [] command.type = "SetCert" -> [ls EXCEPT !.ssl_acceptor = command.cert]
      [] command.type = "Zombify" -> [ls EXCEPT !.zombie_mode = TRUE]

\* `for command in command_rx.try_iter()`: the queued commands the loop
\* takes in this iteration
TakeFirst(q) == IF q = <<>> THEN q ELSE <<q[1]>>
TakeNone(q) == <<>>
try_iter(q) == q

\* the commands of q applied in order
RECURSIVE apply_all(_, _)
apply_all(ls, q) ==
    IF q = <<>> THEN ls ELSE apply_all(apply_command(ls, Head(q)), Tail(q))

\* an iteration of `for stream in listener.incoming()`: the commands queued
\* are applied, then (unless the stream is an error or cannot be made
\* non-blocking) the task is built from clones of mappings, zombie_mode and
\* the acceptor
AcceptIteration(streamOk) ==
    /\ started
    /\ mpc # "exited"
    /\ epc = "accept"
    /\ nconn < MaxAccepts
    /\ LET taken == try_iter(command_rx)
           ls == apply_all(LoopState, taken)
       IN
        /\ command_rx' = SubSeq(command_rx, Len(taken) + 1, Len(command_rx))
        /\ arcs' = ls.arcs
        /\ mappings' = ls.mappings
        /\ ssl_acceptor' = ls.ssl_acceptor
        /\ zombie_mode' = ls.zombie_mode
        /\ took' = Len(taken)
        /\ IF streamOk
           THEN /\ nconn' = nconn + 1
                /\ epc' = "send"
                /\ conn' = [conn EXCEPT ![nconn + 1] =
                     [NoConn EXCEPT !.st = "held",
                                    !.mappings = ls.mappings,
                                    !.zombie_mode = ls.zombie_mode,
                                    !.acceptor = ls.ssl_acceptor,
                                    !.table0 = ls.arcs[ls.mappings],
                                    !.signaled0 = signaled]]
           ELSE UNCHANGED <<nconn, epc, conn>>
    /\ UNCHANGED <<opts, mpc, signaled, reloads, started, history, served>>
    /\ UNCHANGED <<poolVars, loadVars, writeVars, connVars, reqVars, certVars, headVars>>

\* submit_task(stream_task.into()) returns: the task is in a worker's channel
HandOff ==
    /\ mpc # "exited"
    /\ epc = "send"
    /\ conn' = [conn EXCEPT ![nconn].st = "submitted"]
    /\ epc' = "accept"
    /\ UNCHANGED <<opts, mpc, signaled, reloads, started, command_rx, history,
                   arcs, mappings, ssl_acceptor, zombie_mode, nconn, served, took>>
    /\ UNCHANGED <<poolVars, loadVars, writeVars, connVars, reqVars, certVars, headVars>>

\* the table a task routes against: the Arc it holds
routing_table(c) == arcs[conn[c].mappings]

\* the task's worker resumes it and it reads a well-formed GET: the
\* response is chosen from the task's own table and zombie flag, and the
\* task ends
Serve(c, uri, offered, readable) ==
    /\ mpc # "exited"
    /\ conn[c].st = "submitted"
    /\ ~readable => reads_file(routing_table(c), conn[c].zombie_mode, uri)
    /\ served' = [st |-> "served", uri |-> uri, offered |-> offered,
                  resp |-> Respond(routing_table(c), conn[c].zombie_mode,
                                   uri, offered, readable),
                  afterSignal |-> \E t \in conn[c].signaled0 : uri = AcmePath(t),
                  overtaken |-> /\ mappings # conn[c].mappings
                                /\ zombie_mode /\ ~conn[c].zombie_mode,
                  replaced |-> /\ conn[c].mappings > 1
                               /\ uri \in DOMAIN arcs[conn[c].mappings - 1].routes
                               /\ uri \notin DOMAIN routing_table(c).routes]
    /\ conn' = [conn EXCEPT ![c] = [NoConn EXCEPT !.st = "closed"]]
    /\ UNCHANGED <<opts, mpc, signaled, reloads, started, command_rx, history,
                   arcs, mappings, ssl_acceptor, zombie_mode, epc, nconn, took>>
    /\ UNCHANGED <<poolVars, loadVars, writeVars, connVars, reqVars, certVars, headVars>>

CmdNext ==
    \/ MainSendChallenges
    \/ \E t \in Tokens : MainValidate(t)
    \/ MainFails
    \/ MainSetCert
    \/ MainZombify
    \/ \E readOk \in BOOLEAN : MainLoadMappings(readOk)
    \/ \E streamOk \in BOOLEAN : AcceptIteration(streamOk)
    \/ HandOff
    \/ \E c \in ConnIds, uri \in Uris, offered \in Offers, readable \in BOOLEAN :
          Serve(c, uri, offered, readable)

(***************************************************************************)
(* SpecReq: what start_stream_process does with one request once it has    *)
(* been read.  A token of the request line is a pair like a path.          *)
(***************************************************************************)
Tok(text) == <<text, 0>>

\* a path that holds the text "/.well-known/acme-challenge" without being
\* under /.well-known/acme-challenge/
NestedPath == <<"/x/.well-known/acme-challenge/", 1>>
ReqUris == {IndexPath, OldPath, AcmePath(1), NestedPath}

\* request.uri().contains("/.well-known/acme-challenge") on the paths of
\* ReqUris
contains_acme_challenge(uri) == is_acme_challenge(uri) \/ uri = NestedPath

\* the first lines a request can have, by whitespace-separated tokens
RequestLines ==
    {<<>>, <<Tok("GET")>>, <<Tok("GET"), Tok("HTTP/1.1")>>}
    \cup {<<Tok("GET"), u>> : u \in ReqUris}
    \cup {<<Tok(m), u, Tok(v)>> : m \in {"GET", "POST"}, u \in ReqUris,
                                  v \in {"HTTP/1.0", "HTTP/1.1", "HTTP/2"}}
    \cup {<<Tok("GET"), u, Tok("HTTP/1.1"), Tok("junk")>> : u \in ReqUris}

\* the pieces of an Accept-Encoding value between commas: a text and
\* whether blanks surround it
RawTokens == [text : {"gzip", "deflate", "br"}, padded : BOOLEAN]
TokenLists == UNION {[1 .. n -> RawTokens] : n \in 0 .. MaxTokens}

\* an absent header, or one with a value
NoHeader == [present |-> FALSE, tokens |-> <<>>]
AcceptHeaders == {NoHeader} \cup {[present |-> TRUE, tokens |-> l] : l \in TokenLists}
Hosts == {"", "example.org"}

\* what the read can leave in buf: bytes that are not UTF-8, or a text
NonUtf8 == [utf8 |-> FALSE, line |-> <<>>, host |-> "", accept |-> NoHeader]
Requests ==
    {NonUtf8}
    \cup [utf8 : {TRUE}, line : RequestLines, host : Hosts, accept : AcceptHeaders]

\* the tables a task can hold: the empty one, the challenge table, and a
\* site table with and without cache, the cached one lacking the entry of
\* OldPath whose file could not be opened when the table was built
CachedSite ==
    [SiteTable({IndexPath, OldPath}, TRUE) EXCEPT
        !.file_cache = [u \in {IndexPath} |-> FileData(u)]]
ReqTables ==
    {NewTable(FALSE), AcmeTableOf({1}), CachedSite,
     SiteTable({IndexPath, OldPath}, FALSE)}

NoRoute == <<"", 0>>
NoParse == [ok |-> FALSE, uri |-> NoRoute, host |-> "", accept |-> NoHeader]
NoAnswer ==
    [status |-> 0, location |-> <<"", "", NoRoute>>, content_encoding |-> "",
     body |-> NoBody]

ReqInit ==
    /\ reqbuf \in Requests
    /\ rmappings \in ReqTables
    /\ rzombie \in BOOLEAN
    /\ rpc = "parse"
    /\ request = NoParse
    /\ encodings = <<>>
    /\ response = NoAnswer
    /\ delivered = FALSE
    /\ rresult = "none"
    /\ lookups = 0

\* the n-th element of reqlineels, or "" (unwrap_or(""))
Element(line, n) == IF n <= Len(line) THEN line[n] ELSE Tok("")

\* `version != "HTTP/1.0" && version != "HTTP/1.1"` is false
AnyVersion(version) == TRUE
supported_version(version) == version \in {Tok("HTTP/1.0"), Tok("HTTP/1.1")}

\* str::from_utf8(..).and_then(http::Request::parse)
parse(data) ==
    IF ~data.utf8 THEN NoParse
    ELSE IF Element(data.line, 1) # Tok("GET") THEN NoParse
    ELSE IF ~supported_version(Element(data.line, 3)) THEN NoParse
    ELSE [ok |-> TRUE, uri |-> Element(data.line, 2), host |-> data.host,
          accept |-> data.accept]

\* the request is parsed; if that fails the 400 is written by write_all,
\* whose outcome is dropped, and the error returned
ParseRequest(sent) ==
    /\ rpc = "parse"
    /\ request' = parse(reqbuf)
    /\ IF request'.ok
       THEN /\ rpc' = "parsed"
            /\ ~sent
            /\ UNCHANGED <<response, delivered, rresult>>
       ELSE /\ response' = [NoAnswer EXCEPT !.status = 400]
            /\ delivered' = sent
            /\ rresult' = "err"
            /\ rpc' = "done"
    /\ UNCHANGED <<reqbuf, rmappings, rzombie, encodings, lookups>>
    /\ UNCHANGED <<poolVars, loadVars, writeVars, connVars, cmdVars, certVars, headVars>>

\* format!("https://{}{}", request.get("Host").unwrap_or(""), request.uri())
new_location(req) == <<"https://", req.host, req.uri>>

\* the zombie test: a 301 by write_all, whose outcome is dropped, and
\* `return Ok(())`; otherwise on to the encodings
CheckZombie(sent) ==
    /\ rpc = "parsed"
    /\ IF rzombie /\ ~contains_acme_challenge(request.uri)
       THEN /\ response' = [NoAnswer EXCEPT !.status = 301,
                                            !.location = new_location(request)]
            /\ delivered' = sent
            /\ rresult' = "ok"
            /\ rpc' = "done"
       ELSE /\ rpc' = "encodings"
            /\ ~sent
            /\ UNCHANGED <<response, delivered, rresult>>
    /\ UNCHANGED <<reqbuf, rmappings, rzombie, request, encodings, lookups>>
    /\ UNCHANGED <<poolVars, loadVars, writeVars, connVars, cmdVars, certVars, headVars>>

\* str::trim on a piece of the header value
trim(raw) == raw.text

\* the filter_map of the encodings: the pieces that name an encoding
IsSupported(text) == text \in {"deflate", "gzip"}
EncodingOf(text) == IF text = "gzip" THEN "Gzip" ELSE "Deflate"
RECURSIVE filter_map(_)
filter_map(tokens) ==
    IF tokens = <<>> THEN <<>>
    ELSE LET text == trim(Head(tokens)) IN
         (IF IsSupported(text) THEN <<EncodingOf(text)>> ELSE <<>>)
            \o filter_map(Tail(tokens))

\* the key of sort_unstable_by_key
DeflateFirst(k) == CASE k = "Gzip" -> 2 [] k = "Deflate" -> 1 [] OTHER -> 10
sort_key(k) == CASE k = "Gzip" -> 1 [] k = "Deflate" -> 2 [] OTHER -> 10

\* encodings.sort_unstable_by_key(..): the elements by ascending key
sort_by_key(list) ==
    SelectSeq(list, LAMBDA k : sort_key(k) = 1)
        \o SelectSeq(list, LAMBDA k : sort_key(k) = 2)
        \o SelectSeq(list, LAMBDA k : sort_key(k) = 10)

\* the Accept-Encoding header is split, trimmed, filtered and sorted
SortEncodings ==
    /\ rpc = "encodings"
    /\ encodings' = sort_by_key(filter_map(request.accept.tokens))
    /\ rpc' = "route"
    /\ UNCHANGED <<reqbuf, rmappings, rzombie, request, response, delivered,
                   rresult, lookups>>
    /\ UNCHANGED <<poolVars, loadVars, writeVars, connVars, cmdVars, certVars, headVars>>

\* Mappings::get_route: the mapped path of a key, or NoRoute
RouteAnything(table, key) == key
get_route(table, key) ==
    IF key \in DOMAIN table.routes THEN table.routes[key] ELSE NoRoute

\* Mappings::get_asset finds an asset: always without cache, the cache entry
\* with it
has_asset(table, path) == ~table.caching \/ path \in DOMAIN table.file_cache

\* encodings.first().cloned().unwrap_or(Encoding::Uncompressed)
first_encoding(list) == IF list = <<>> THEN "Uncompressed" ELSE list[1]

\* the name send_data_async puts in Content-Encoding
content_encoding_of(encoding) ==
    CASE encoding = "Gzip" -> "gzip" [] encoding = "Deflate" -> "deflate"
      [] OTHER -> ""

\* the route and the asset are looked up: without both the 404 goes out by
\* write_async, whose result is the task's; with both send_data_async gets
\* the body in the first encoding (for an asset without cache the file is
\* read now, and a failure is returned before anything is written) and
\* writes head and body
RouteRequest(readable, sent) ==
    /\ rpc = "route"
    /\ lookups' = lookups + 1
    /\ LET path == get_route(rmappings, request.uri)
           encoding == first_encoding(encodings)
       IN
        IF path = NoRoute \/ ~has_asset(rmappings, path)
        THEN /\ response' = [NoAnswer EXCEPT !.status = 404]
             /\ delivered' = sent
             /\ rresult' = IF sent THEN "ok" ELSE "err"
             /\ readable
        ELSE IF rmappings.caching
        THEN /\ response' = [NoAnswer EXCEPT
                                !.status = 200,
                                !.content_encoding = content_encoding_of(encoding),
                                !.body = get_encoding(rmappings.file_cache[path], encoding)]
             /\ delivered' = sent
             /\ rresult' = IF sent THEN "ok" ELSE "err"
             /\ readable
        ELSE IF readable
        THEN /\ response' = [NoAnswer EXCEPT
                                !.status = 200,
                                !.content_encoding = content_encoding_of(encoding),
                                !.body = get_encoding(FileData(path), encoding)]
             /\ delivered' = sent
             /\ rresult' = IF sent THEN "ok" ELSE "err"
        ELSE /\ rresult' = "err"
             /\ ~sent
             /\ UNCHANGED <<response, delivered>>
    /\ rpc' = "done"
    /\ UNCHANGED <<reqbuf, rmappings, rzombie, request, encodings>>
    /\ UNCHANGED <<poolVars, loadVars, writeVars, connVars, cmdVars, certVars, headVars>>

ReqNext ==
    \/ \E sent \in BOOLEAN : ParseRequest(sent)
    \/ \E sent \in BOOLEAN : CheckZombie(sent)
    \/ SortEncodings
    \/ \E readable \in BOOLEAN, sent \in BOOLEAN : RouteRequest(readable, sent)

(***************************************************************************)
(* SpecCert: cert::acquire_certificate.  The three files of the bundle are *)
(* the ones the staging flag selects; the ACME service, the file system    *)
(* and the command channel answer each call with success or failure.       *)
(***************************************************************************)
\* certificate_filename, intermediate_cert_filename, private_key_filename
Paths == {"cert", "intermediate", "key"}

ExpiryDays == (RENEWAL_PERIOD_DAYS - MaxDaysOff) .. (RENEWAL_PERIOD_DAYS + MaxDaysOff)

\* what a path holds: nothing, bytes that are no PEM, or a PEM; for the
\* certificate, `days` is what ASN1_TIME_diff reports up to its not_after
\* and `datable` whether ASN1_TIME_diff succeeds; `issue` tells which
\* issuance a PEM comes from: 0 for the one before the run, n for the one
\* of the n-th call of acquire_certificate
NoFile == [state |-> "missing", days |-> 0, datable |-> FALSE, issue |-> 0]
Garbage == [state |-> "garbage", days |-> 0, datable |-> FALSE, issue |-> 0]
PlainPem == [state |-> "pem", days |-> 0, datable |-> TRUE, issue |-> 0]
CertPems == [state : {"pem"}, days : ExpiryDays, datable : BOOLEAN, issue : {0}]

Stores ==
    {[p \in Paths |-> CASE p = "cert" -> c [] p = "intermediate" -> i [] OTHER -> k] :
        c \in {NoFile, Garbage} \cup CertPems,
        i \in {NoFile, Garbage, PlainPem},
        k \in {NoFile, Garbage, PlainPem}}

\* a Certificate: where it comes from, its days_till_expiry, and the
\* issuance each of its three parts comes from
NoCert == [origin |-> "none", days |-> 0, public_cert |-> 0,
           intermediate_cert |-> 0, private_key |-> 0]

CertInit ==
    /\ store \in Stores
    /\ kpc = "load"
    /\ issuance = <<>>
    /\ fetched = 0
    /\ readied = 0
    /\ polls = 0
    /\ kcert = NoCert
    /\ kresult = "none"
    /\ order_status = "none"
    /\ attempts = 1

\* Certificate::from_pem
from_pem(cert_raw, intermediate_raw, priv_raw) ==
    /\ cert_raw.state = "pem"
    /\ intermediate_raw.state = "pem"
    /\ priv_raw.state = "pem"

\* Certificate::days_till_expiry: Ok(day_offset), or Err when ASN1_TIME_diff
\* does not return 1
days_till_expiry(cert) ==
    [ok |-> cert.datable, days |-> IF cert.datable THEN cert.days ELSE 0]

\* `days_till_expiry <= RENEWAL_PERIOD_DAYS`
DueOnlyBefore(days) == days < RENEWAL_PERIOD_DAYS
near_expiry(days) == days <= RENEWAL_PERIOD_DAYS

\* load_certificate_from: the three reads, from_pem, days_till_expiry and
\* the renewal test, each ending the load with Err when it fails
load_certificate_from(s) ==
    LET readOk == \A p \in Paths : s[p].state # "missing"
        parsed == from_pem(s["cert"], s["intermediate"], s["key"])
        d == days_till_expiry(s["cert"])
    IN  IF readOk /\ parsed /\ d.ok /\ ~near_expiry(d.days)
        THEN [ok |-> TRUE,
              cert |-> [origin |-> "disk", days |-> d.days,
                        public_cert |-> s["cert"].issue,
                        intermediate_cert |-> s["intermediate"].issue,
                        private_key |-> s["key"].issue]]
        ELSE [ok |-> FALSE, cert |-> NoCert]

\* acquire_certificate returns Err
CertFails ==
    /\ kpc' = "done"
    /\ kresult' = "err"
    /\ kcert' = NoCert

\* acquire_certificate up to the call of request_new_certificate
LoadCertificate ==
    /\ kpc = "load"
    /\ LET loaded == load_certificate_from(store)
       IN  IF loaded.ok
           THEN /\ kpc' = "done"
                /\ kresult' = "ok"
                /\ kcert' = loaded.cert
           ELSE /\ kpc' = "order"
                /\ UNCHANGED <<kresult, kcert>>
    /\ UNCHANGED <<store, issuance, fetched, readied, polls, order_status, attempts>>
    /\ UNCHANGED <<poolVars, loadVars, writeVars, connVars, cmdVars, reqVars, headVars>>

\* request_new_certificate: the account registration and submit_order
SubmitOrder(outcome) ==
    /\ kpc = "order"
    /\ CASE outcome = "ok" ->
              /\ issuance' = issuance \o <<"register", "order">>
              /\ kpc' = "authorize"
              /\ UNCHANGED <<kresult, kcert>>
         [] outcome = "order_fails" ->
              /\ issuance' = Append(issuance, "register")
              /\ CertFails
         [] OTHER ->
              /\ issuance' = issuance
              /\ CertFails
    /\ UNCHANGED <<store, fetched, readied, polls, order_status, attempts>>
    /\ UNCHANGED <<poolVars, loadVars, writeVars, connVars, cmdVars, reqVars, headVars>>

\* one turn of the loop over order.authorizations: fetch_authorization, the
\* choice of the HTTP challenge, calculate_key_authorization and
\* insert_data_mapping
FetchAuthorization(ok) ==
    /\ kpc = "authorize"
    /\ fetched < NumDomains
    /\ IF ok
       THEN /\ issuance' = Append(issuance, "authorize")
            /\ fetched' = fetched + 1
            /\ kpc' = IF fetched + 1 = NumDomains THEN "publish" ELSE "authorize"
            /\ UNCHANGED <<kresult, kcert>>
       ELSE /\ CertFails
            /\ UNCHANGED <<issuance, fetched>>
    /\ UNCHANGED <<store, readied, polls, order_status, attempts>>
    /\ UNCHANGED <<poolVars, loadVars, writeVars, connVars, cmdVars, reqVars, headVars>>

\* `fs_command_tx.send(FileserverCommand::NewMappings(mapping))?`
PublishChallenges(ok) ==
    /\ kpc = "publish"
    /\ IF ok
       THEN /\ issuance' = Append(issuance, "publish")
            /\ kpc' = "signal"
            /\ UNCHANGED <<kresult, kcert>>
       ELSE /\ CertFails
            /\ UNCHANGED issuance
    /\ UNCHANGED <<store, fetched, readied, polls, order_status, attempts>>
    /\ UNCHANGED <<poolVars, loadVars, writeVars, connVars, cmdVars, reqVars, headVars>>

\* one turn of the loop over challenges: signal_challenge_ready
SignalReady(ok) ==
    /\ kpc = "signal"
    /\ readied < fetched
    /\ IF ok
       THEN /\ issuance' = Append(issuance, "signal")
            /\ readied' = readied + 1
            /\ kpc' = IF readied + 1 = fetched THEN "poll" ELSE "signal"
            /\ UNCHANGED <<kresult, kcert>>
       ELSE /\ CertFails
            /\ UNCHANGED <<issuance, readied>>
    /\ UNCHANGED <<store, fetched, polls, order_status, attempts>>
    /\ UNCHANGED <<poolVars, loadVars, writeVars, connVars, cmdVars, reqVars, headVars>>

OrderStatuses == {"Pending", "Processing", "Ready", "Valid", "Invalid"}

\* the arms of `match order.status`: continue, break
InvalidBreaks(seen) == seen \in {"Ready", "Valid", "Invalid"}
unfinished(seen) == seen \in {"Pending", "Processing"}
ready_to_finalize(seen) == seen \in {"Ready", "Valid"}

\* one turn of the polling loop: fetch_order and the match on order.status
PollOrder(fetchedOk, seen) ==
    /\ kpc = "poll"
    /\ IF ~fetchedOk
       THEN /\ CertFails
            /\ UNCHANGED <<issuance, polls, order_status>>
       ELSE /\ issuance' = Append(issuance, "poll")
            /\ order_status' = seen
            /\ CASE ready_to_finalize(seen) ->
                      /\ kpc' = "finalize"
                      /\ UNCHANGED <<polls, kresult, kcert>>
                 [] unfinished(seen) ->
                      /\ polls < MaxPolls
                      /\ polls' = polls + 1
                      /\ UNCHANGED <<kpc, kresult, kcert>>
                 [] OTHER ->
                      /\ CertFails
                      /\ UNCHANGED polls
    /\ UNCHANGED <<store, fetched, readied, attempts>>
    /\ UNCHANGED <<poolVars, loadVars, writeVars, connVars, cmdVars, reqVars, headVars>>

\* finalize_order; the service decides how long the certificate lasts
FinalizeOrder(ok, days) ==
    /\ kpc = "finalize"
    /\ IF ok
       THEN /\ issuance' = Append(issuance, "finalize")
            /\ kcert' = [origin |-> "acme", days |-> days, public_cert |-> attempts,
                         intermediate_cert |-> attempts, private_key |-> attempts]
            /\ kpc' = "persist"
            /\ UNCHANGED kresult
       ELSE /\ CertFails
            /\ UNCHANGED issuance
    /\ UNCHANGED <<store, fetched, readied, polls, order_status, attempts>>
    /\ UNCHANGED <<poolVars, loadVars, writeVars, connVars, cmdVars, reqVars, headVars>>

\* the order in which acquire_certificate writes the bundle
WriteOrder == <<"cert", "intermediate", "key">>

Written(n) == {WriteOrder[k] : k \in 1 .. n}

\* the end of acquire_certificate: create_dir_all, the three writes, of
\* which the first `written` succeed, and Certificate::from_signed
Persist(written) ==
    /\ kpc = "persist"
    /\ store' = [p \in Paths |->
                    IF p \in Written(written)
                    THEN IF p = "cert"
                         THEN [state |-> "pem", days |-> kcert.days, datable |-> TRUE,
                               issue |-> kcert.public_cert]
                         ELSE [PlainPem EXCEPT !.issue =
                                  IF p = "key" THEN kcert.private_key
                                  ELSE kcert.intermediate_cert]
                    ELSE store[p]]
    /\ issuance' = issuance \o [k \in 1 .. written |-> "write"]
    /\ kpc' = "done"
    /\ IF written = Len(WriteOrder)
       THEN /\ kresult' = "ok"
            /\ UNCHANGED kcert
       ELSE /\ kresult' = "err"
            /\ kcert' = NoCert
    /\ UNCHANGED <<fetched, readied, polls, order_status, attempts>>
    /\ UNCHANGED <<poolVars, loadVars, writeVars, connVars, cmdVars, reqVars, headVars>>

\* acquire_certificate is called again, the files as the last call left them
AcquireAgain ==
    /\ kpc = "done"
    /\ attempts < MaxAttempts
    /\ attempts' = attempts + 1
    /\ kpc' = "load"
    /\ issuance' = <<>>
    /\ fetched' = 0
    /\ readied' = 0
    /\ polls' = 0
    /\ kcert' = NoCert
    /\ kresult' = "none"
    /\ order_status' = "none"
    /\ UNCHANGED store
    /\ UNCHANGED <<poolVars, loadVars, writeVars, connVars, cmdVars, reqVars, headVars>>

CertNext ==
    \/ LoadCertificate
    \/ \E outcome \in {"ok", "order_fails", "register_fails"} : SubmitOrder(outcome)
    \/ \E ok \in BOOLEAN : FetchAuthorization(ok)
    \/ \E ok \in BOOLEAN : PublishChallenges(ok)
    \/ \E ok \in BOOLEAN : SignalReady(ok)
    \/ \E fetchedOk \in BOOLEAN, seen \in OrderStatuses :
          PollOrder(fetchedOk, seen)
    \/ \E ok \in BOOLEAN, days \in ExpiryDays : FinalizeOrder(ok, days)
    \/ \E written \in 0 .. Len(WriteOrder) : Persist(written)
    \/ AcquireAgain

(***************************************************************************)
(* SpecHead: send_data_async for a request served again and again against  *)
(* one table with caching.  Response keeps its fields in a HashMap made by *)
(* HashMap::new(), whose hasher is seeded anew for each map: the order in   *)
(* which header_string walks the fields is any order of them.              *)
(***************************************************************************)
\* Mapping { path, content_type }, content_type "" for None
ContentTypes == {"", "text/html", "text/css"}
Mappings == [path : {IndexPath, OldPath}, content_type : ContentTypes]

\* the orders in which a HashMap holding `fields` can be walked
Orders(fields) ==
    {o \in [1 .. Cardinality(fields) -> fields] :
        \A i, j \in 1 .. Cardinality(fields) : i # j => o[i] # o[j]}

\* the fields send_data_async sets: Content-Encoding unless Uncompressed,
\* Content-Type if the route declares one
fields_of(encoding, content_type) ==
    (IF content_encoding_of(encoding) = "" THEN {}
     ELSE {<<"Content-Encoding", content_encoding_of(encoding)>>})
    \cup (IF content_type = "" THEN {} ELSE {<<"Content-Type", content_type>>})

\* Response::header_string: the status line, then the fields as walked
header_string(status_line, walked) == <<<<status_line, "">>>> \o walked

HeadInit ==
    /\ hroute \in Mappings
    /\ hencoding \in {"Uncompressed", "Gzip", "Deflate"}
    /\ answers = <<>>

\* send_data_async for the cached asset of the route: the body is the
\* stored data of the encoding, the head is walked in the order of this
\* response's map
SendData(walked) ==
    /\ Len(answers) < MaxServes
    /\ walked \in Orders(fields_of(hencoding, hroute.content_type))
    /\ answers' = Append(answers,
                     [head |-> header_string("HTTP/1.1 200 OK", walked),
                      body |-> get_encoding(FileData(hroute.path), hencoding)])
    /\ UNCHANGED <<hroute, hencoding>>
    /\ UNCHANGED <<poolVars, loadVars, writeVars, connVars, cmdVars, reqVars, certVars>>

HeaderLines ==
    {<<"Content-Encoding", "gzip">>, <<"Content-Encoding", "deflate">>}
    \cup {<<"Content-Type", c>> : c \in ContentTypes \ {""}}

HeadNext ==
    \E walked \in UNION {Orders(f) : f \in SUBSET HeaderLines} : SendData(walked)

\* the groups a specification does not move stay in one initial state
WriteIdle == WriteInit /\ bytes = <<>>
ConnIdle == ConnInit /\ ~tls /\ ~zombie
CmdIdle == CmdInit /\ ~opts.secure /\ ~opts.nocache
ReqIdle == ReqInit /\ ~reqbuf.utf8 /\ rmappings = NewTable(FALSE) /\ ~rzombie
CertIdle == CertInit /\ store = [p \in Paths |-> NoFile]
HeadIdle ==
    HeadInit /\ hroute = [path |-> IndexPath, content_type |-> ""]
             /\ hencoding = "Uncompressed"

Init ==
    PoolInit /\ LoadInit /\ WriteIdle /\ ConnIdle /\ CmdIdle /\ ReqIdle /\ CertIdle
    /\ HeadIdle
InitWrite ==
    PoolInit /\ LoadInit /\ WriteInit /\ ConnIdle /\ CmdIdle /\ ReqIdle /\ CertIdle
    /\ HeadIdle
InitConn ==
    PoolInit /\ LoadInit /\ WriteIdle /\ ConnInit /\ CmdIdle /\ ReqIdle /\ CertIdle
    /\ HeadIdle
InitCmd ==
    PoolInit /\ LoadInit /\ WriteIdle /\ ConnIdle /\ CmdInit /\ ReqIdle /\ CertIdle
    /\ HeadIdle
InitReq ==
    PoolInit /\ LoadInit /\ WriteIdle /\ ConnIdle /\ CmdIdle /\ ReqInit /\ CertIdle
    /\ HeadIdle
InitCert ==
    PoolInit /\ LoadInit /\ WriteIdle /\ ConnIdle /\ CmdIdle /\ ReqIdle /\ CertInit
    /\ HeadIdle

Spec == Init /\ [][PoolNext]_vars

SpecLoad == Init /\ [][LoadNext]_vars

SpecWrite == InitWrite /\ [][WriteNext]_vars

SpecConn == InitConn /\ [][ConnNext]_vars

SpecCmd == InitCmd /\ [][CmdNext]_vars

SpecReq == InitReq /\ [][ReqNext]_vars

SpecCert == InitCert /\ [][CertNext]_vars

InitHead ==
    PoolInit /\ LoadInit /\ WriteIdle /\ ConnIdle /\ CmdIdle /\ ReqIdle /\ CertIdle
    /\ HeadInit
SpecHead == InitHead /\ [][HeadNext]_vars

\* the worker keeps making passes and the thread keeps running the task it
\* resumed; the clock keeps advancing
FairSpecConn == SpecConn /\ WF_vars(ConnStep) /\ WF_vars(Tick)

(***************************************************************************)
(* Claims checked under Spec.                                              *)
(***************************************************************************)
\* number of places (a channel slot, a slot of a worker's Vec, the accept
\* loop's hands) that hold task t
Occurrences(t) ==
    SumOver(Workers, [w \in Workers |-> Count(rx[w], t) + Count(coros[w], t)])
        + (IF held = t THEN 1 ELSE 0)

\* C1: ownership exclusivity. Every task is sent to exactly one worker's
\* channel, is held in at most one place at any time, is found only in the
\* channel or the Vec of the worker it was sent to (it never moves to
\* another worker), and only that worker ever calls resume on it.
C1_OwnershipExclusive ==
    \A t \in TaskIds :
        /\ Len(sentTo[t]) <= 1
        /\ (t <= created /\ held # t) => Len(sentTo[t]) = 1
        /\ Occurrences(t) <= 1
        /\ \A w \in Workers :
              (t \in Range(rx[w]) \cup Range(coros[w])) => sentTo[t] = <<w>>
        /\ resumedBy[t] \subseteq Range(sentTo[t])

\* two workers each own and have resumed a task while a third task has
\* already finished and been dropped
C1_Witness ==
    /\ \E t \in TaskIds : resumedBy[t] = {0} /\ t \in Range(coros[0])
    /\ \E t \in TaskIds : resumedBy[t] = {1} /\ t \in Range(coros[1])
    /\ \E t \in TaskIds :
          /\ resumedBy[t] # {} /\ ~valid[t]
          /\ \A w \in Workers : t \notin Range(coros[w])

\* the worker has called resume on every task of its Vec in this pass
PassDone(w) == wpc[w] = "resume" /\ iter[w] > Len(coros[w])

\* C4: in a pass every owned task (those drained at the start of the pass
\* included) has resume called on it exactly once; a task that finished is
\* gone from the Vec when the pass ends and resume is never called on it
\* again; a live task is never dropped.
C4_ResumeOncePerPass ==
    /\ \A w \in Workers :
          /\ wpc[w] = "resume" =>
                \A k \in 1 .. Len(coros[w]) :
                    calls[coros[w][k]] = IF k < iter[w] THEN 1 ELSE 0
          /\ PassDone(w) => \A t \in Range(coros[w]) : calls[t] = 1
          /\ wpc[w] # "resume" => \A t \in Range(coros[w]) : valid[t]
    /\ \A t \in TaskIds :
          /\ lateCalls[t] = 0
          /\ (valid[t] /\ Len(sentTo[t]) = 1 /\ t \notin Range(rx[sentTo[t][1]]))
                => t \in Range(coros[sentTo[t][1]])

\* a pass has ended on a Vec holding a task drained in this pass, a task
\* that finished in this pass and a task that is still live
C4_Witness ==
    \E w \in Workers :
        /\ PassDone(w)
        /\ drainedNow[w] # {}
        /\ \E t \in Range(coros[w]) : ~valid[t]
        /\ \E t \in Range(coros[w]) : valid[t] /\ t \notin drainedNow[w]

\* C18: a task whose resume gives an error is the only one to finish by
\* it: in that step no other task, no channel, no Vec and no part of the
\* accept loop changes and the worker goes on with its pass; every task of
\* the Vec still has its resume in the pass, and a live task that was
\* handed over stays in its worker's channel or Vec.
C18_ErrorIsolation ==
    /\ [](\A t \in aborted : ~valid[t])
    /\ [](\A w \in Workers : PassDone(w) => \A t \in Range(coros[w]) : calls[t] = 1)
    /\ [](\A t \in TaskIds : (valid[t] /\ held # t) => Occurrences(t) = 1)
    /\ [][aborted' # aborted =>
            /\ \E t \in TaskIds :
                  /\ aborted' = aborted \cup {t}
                  /\ valid[t] /\ ~valid'[t]
                  /\ \A u \in TaskIds \ {t} : valid'[u] = valid[u]
            /\ UNCHANGED <<rx, coros, wpc, created, apc, held, worker_tx_iter>>]_vars

\* the first task of a worker's Vec ended with an error in a pass in which
\* the task after it was resumed and stays live; the worker then ran
\* another pass with that task, and the accept loop took further streams
C18_Witness ==
    \E w \in Workers :
        /\ PassDone(w)
        /\ Len(coros[w]) = 1
        /\ valid[coros[w][1]]
        /\ \E t \in aborted : sentTo[t] = <<w>> /\ t < coros[w][1]
        /\ created = MaxConns

\* what worker w has pending or owns
Load(w) == Len(rx[w]) + Len(coros[w])

\* C24: the k-th task the accept loop submits (k = 0, 1, 2, ...) is sent
\* to worker k mod NumWorkers, and to no other, whatever the workers hold.
C24_RoundRobin ==
    \A t \in TaskIds : sentTo[t] # <<>> => sentTo[t] = <<(t - 1) % NumWorkers>>

\* the third task went to worker 0, which still had the first, while
\* worker 1 had nothing
C24_Witness ==
    /\ created = 3
    /\ sentTo[3] = <<0>>
    /\ Load(0) = 2
    /\ Load(1) = 0
    /\ wpc[1] = "recv"

\* C26: a worker is at rx.recv() only while its Vec is empty; a worker
\* that owns a live task is not at rx.recv(); and at the end of each pass
\* every task of the Vec has been resumed in that pass.
C26_BlocksOnlyWhenIdle ==
    /\ \A w \in Workers : wpc[w] = "recv" => coros[w] = <<>>
    /\ \A w \in Workers :
          (\E t \in Range(coros[w]) : valid[t]) => wpc[w] # "recv"
    /\ \A w \in Workers :
          PassDone(w) => \A t \in Range(coros[w]) : calls[t] >= 1

\* a worker with a live task resumed in the last pass sleeps before its
\* next pass although a task is pending in its channel
C26_Witness ==
    \E w \in Workers :
        /\ wpc[w] = "sleep"
        /\ rx[w] # <<>>
        /\ coros[w] # <<>>
        /\ \A t \in Range(coros[w]) : valid[t] /\ calls[t] = 1

(***************************************************************************)
(* Claims checked under SpecLoad.                                          *)
(***************************************************************************)
\* C3: a worker never owns more than MAX_CONCURRENT_CONNECTIONS_PER_THREAD
\* tasks, whatever is pending in its channel when a drain starts.
C3_OwnedWithinCeiling == ncoros <= MAX_CONCURRENT_CONNECTIONS_PER_THREAD

\* C5: a channel never holds more than MAX_PENDING_CONNECTIONS_PER_THREAD
\* tasks, and while the accept loop is sending to a worker whose channel is
\* full it stays in that send (it accepts nothing and assigns nothing) and
\* only the worker taking a task changes the channel.
C5_Backpressure ==
    /\ [](qlen <= MAX_PENDING_CONNECTIONS_PER_THREAD)
    /\ [][(lpc = "send" /\ next_tx = 0 /\ qlen = MAX_PENDING_CONNECTIONS_PER_THREAD)
            => (lpc' = "send" /\ next_tx' = 0 /\ qlen' <= qlen)]_vars

\* the accept loop holds a task for worker 0 whose channel is full
C5_Witness ==
    lpc = "send" /\ next_tx = 0 /\ qlen = MAX_PENDING_CONNECTIONS_PER_THREAD

(***************************************************************************)
(* Claims checked under SpecWrite.                                         *)
(***************************************************************************)
\* a step that is a call of stream.write
WriteCalled == Len(outcomes') = Len(outcomes) + 1
LastOutcome == outcomes'[Len(outcomes')]

\* C9: a would-block or interrupted write suspends the generator without
\* ending it and without moving the cursor; any other error ends it with
\* the error; the stream has at every moment accepted exactly the first
\* `cursor` bytes of the buffer, so that on success it has accepted the
\* whole buffer, in order, each byte once.
C9_WriteAll ==
    /\ [](cursor <= Len(bytes) /\ wire = SubSeq(bytes, 1, cursor))
    /\ [](wresult = "ok" => wire = bytes)
    /\ [][(WriteCalled /\ LastOutcome \in {"wouldblock", "interrupted"})
            => (gstate' = "suspended" /\ wresult' = "none"
                /\ cursor' = cursor /\ wire' = wire)]_vars
    /\ [][(WriteCalled /\ LastOutcome = "error")
            => (gstate' = "returned" /\ wresult' = "err")]_vars
    /\ [][gstate = "returned" => UNCHANGED <<gstate, wresult, cursor, wire>>]_vars

\* a buffer of full length went out after a short write, a would-block and
\* an interrupted write
C9_Witness ==
    /\ wresult = "ok"
    /\ Len(bytes) = MaxLen
    /\ {"short", "wouldblock", "interrupted"} \subseteq Range(outcomes)

\* C10: the write that follows a short write is issued only when the
\* kernel's output queue is empty (until then the generator yields).
C10_WaitsForKernelQueue ==
    [][(WriteCalled /\ outcomes # <<>> /\ outcomes[Len(outcomes)] = "short")
        => ~has_pending_writes(outq)]_vars

\* C27: a call of stream.write after which write_async goes on without
\* yielding or returning has moved the cursor, so that a resume makes no
\* more calls than the buffer has bytes before it gives the thread back.
C27_ResumeReturns ==
    [][(WriteCalled /\ gstate = "running" /\ gstate' = "running") => cursor' > cursor]_vars

(***************************************************************************)
(* Claims checked under SpecCmd.                                           *)
(***************************************************************************)
InFlight == {c \in ConnIds : conn[c].st \in {"held", "submitted"}}

\* C6: from its creation on, a connection task holds the table and the
\* redirect flag the accept loop had when it was built: neither changes
\* while commands are applied, and the response it gives is the one that
\* table and that flag determine.
C6_SnapshotStable ==
    /\ [](\A c \in InFlight : routing_table(c) = conn[c].table0)
    /\ [][\A c \in InFlight :
            IF conn'[c].st = "closed"
            THEN \E readable \in BOOLEAN :
                    served'.resp = Respond(conn[c].table0, conn[c].zombie_mode,
                                           served'.uri, served'.offered, readable)
            ELSE /\ conn'[c].mappings = conn[c].mappings
                 /\ conn'[c].zombie_mode = conn[c].zombie_mode
                 /\ conn'[c].table0 = conn[c].table0]_vars

\* a connection was served after the loop had installed another table and
\* turned redirecting on: a path the new table routes got 404 from the old
\* one, and a path the loop now redirects did not get the redirect
C6_Witness ==
    /\ served.st = "served"
    /\ served.overtaken
    /\ served.resp.status = 404
    /\ \/ served.uri \in DOMAIN arcs[mappings].routes
       \/ ~is_acme_challenge(served.uri)

\* the loop state after the first n commands sent, applied in send order
Replay(n) == apply_all(InitialLoopState, SubSeq(history, 1, n))

\* what task k captured is what the first n commands sent lead to
Reflects(k, n) ==
    LET ls == Replay(n) IN
    /\ k.table0 = ls.arcs[ls.mappings]
    /\ k.zombie_mode = ls.zombie_mode
    /\ k.acceptor = ls.ssl_acceptor

\* C7 (as stated): when a connection is handed to a worker, every command
\* sent so far is reflected in the table, certificate and mode it captured.
C7_SentBeforeHandOffApplied ==
    [][(epc = "send" /\ epc' = "accept") => Reflects(conn[nconn], Len(history))]_vars

\* C7 (amended): the loop has applied, in send order, exactly the commands
\* no longer in the channel; an iteration that accepts a connection leaves
\* the channel empty, and what the connection captures is the result of
\* applying every command sent before that iteration drained the channel.
C7_DrainedBeforeCapture ==
    /\ [](LET ls == Replay(Len(history) - Len(command_rx)) IN
            /\ arcs[mappings] = ls.arcs[ls.mappings]
            /\ zombie_mode = ls.zombie_mode
            /\ ssl_acceptor = ls.ssl_acceptor)
    /\ [][nconn' # nconn =>
            /\ command_rx' = <<>>
            /\ Reflects(conn'[nconn'], Len(history))]_vars

\* an iteration has just taken two NewMappings with different tables at once
\* and built a connection, after an iteration that found the channel empty
\* had built another
C7_Witness ==
    /\ epc = "send"
    /\ took >= 2
    /\ history[Len(history)].type = "NewMappings"
    /\ history[Len(history) - 1].type = "NewMappings"
    /\ history[Len(history)].table # history[Len(history) - 1].table
    /\ conn[nconn].table0 = history[Len(history)].table
    /\ nconn >= 2
    /\ conn[1].table0 = NewTable(FALSE)

\* the connection served last is one the plaintext listener accepted once
\* the challenge of token t had been signaled ready, and asked for t's path
AskedAfterSignal(t) ==
    /\ opts.listener = "plain"
    /\ served.st = "served"
    /\ served.afterSignal
    /\ served.uri = AcmePath(t)

\* C8 (as stated): such a request gets status 200 with the key
\* authorization itself as the body.
C8_ExactBody ==
    \A t \in Tokens :
        AskedAfterSignal(t) =>
            /\ served.resp.status = 200
            /\ served.resp.body = get_encoding(KeyAuth(t), "Uncompressed")

\* C8 (amended): such a request gets status 200 with the key authorization
\* in the negotiated encoding: compressed when the request offers gzip or
\* deflate, the string itself otherwise.
C8_ChallengeServed ==
    \A t \in Tokens :
        AskedAfterSignal(t) =>
            /\ served.resp.status = 200
            /\ served.resp.body.encoding = negotiate(served.offered)
            /\ Decoded(served.resp.body) = KeyAuth(t)

\* the challenge of the last token was asked for, offering gzip, by a
\* connection accepted after the signal, and the listener has since turned
\* to redirecting
C8_Witness ==
    /\ AskedAfterSignal(NumDomains)
    /\ served.offered = {"gzip"}
    /\ served.resp.body = get_encoding(KeyAuth(NumDomains), "Gzip")
    /\ zombie_mode

\* the table of the last NewMappings among cmds, Mappings::new(false) if none
RECURSIVE LastTable(_)
LastTable(cmds) ==
    IF cmds = <<>> THEN NewTable(FALSE)
    ELSE IF cmds[Len(cmds)].type = "NewMappings" THEN cmds[Len(cmds)].table
    ELSE LastTable(SubSeq(cmds, 1, Len(cmds) - 1))

\* the commands the loop has applied
Applied == SubSeq(history, 1, Len(history) - Len(command_rx))

\* C28: the loop's table is the table of the last NewMappings applied,
\* nothing of an earlier table left in it, and so is the table of every
\* connection accepted from then on; such a connection answers 404 to a
\* path its table does not route unless it redirects, and 404 to every
\* path that the table before routed and its table does not; the table
\* built for the challenges routes the challenge paths only.
C28_ReplacedWholesale ==
    /\ [](arcs[mappings] = LastTable(Applied))
    /\ [][nconn' # nconn => conn'[nconn'].table0 = LastTable(Applied')]_vars
    /\ [][\A c \in InFlight :
            conn'[c].st = "closed" =>
                /\ (/\ served'.uri \notin DOMAIN conn[c].table0.routes
                    /\ ~(conn[c].zombie_mode /\ ~is_acme_challenge(served'.uri)))
                        => served'.resp.status = 404
                /\ served'.replaced => served'.resp.status = 404]_vars
    /\ [](\A c \in InFlight :
            (opts.secure /\ opts.listener = "plain" /\ conn[c].mappings > 1)
                => DOMAIN conn[c].table0.routes = {AcmePath(t) : t \in Tokens})

\* a connection accepted after the mapping file lost the route of OldPath
\* asked for OldPath and got 404
C28_Witness ==
    /\ served.st = "served"
    /\ served.replaced
    /\ served.uri = OldPath
    /\ served.resp.status = 404

\* C29: the TLS listener is started with SetCert first in its channel; every
\* task it builds holds the acceptor; an acceptor once installed stays.
C29_TlsOnly ==
    /\ []((opts.listener = "tls" /\ started)
            => (history # <<>> /\ history[1].type = "SetCert"))
    /\ [](opts.listener = "tls" => \A c \in InFlight : conn[c].acceptor # "none")
    /\ [][ssl_acceptor # "none" => ssl_acceptor' = ssl_acceptor]_vars

\* the TLS listener has built two tasks, both with the acceptor, the second
\* after a table was installed
C29_Witness ==
    /\ opts.listener = "tls"
    /\ nconn >= 2
    /\ conn[1].st = "submitted" /\ conn[1].acceptor # "none"
    /\ conn[2].st = "submitted" /\ conn[2].acceptor # "none"
    /\ conn[2].mappings > 1

\* C22: an issuance that fails leaves the process running: main goes on,
\* and the plaintext listener with it.
C22_IssuanceFailureSurvived == mpc # "exited"

(***************************************************************************)
(* Claims checked under SpecReq.                                           *)
(***************************************************************************)
Done == rpc = "done"

\* the first line is not `GET <path> HTTP/1.0|1.1`: the bytes are not UTF-8,
\* the method is not GET, the path or the version is missing, or the
\* version is another one
NotWellFormed(data) ==
    \/ ~data.utf8
    \/ Len(data.line) < 3
    \/ data.line[1] # Tok("GET")
    \/ data.line[3] \notin {Tok("HTTP/1.0"), Tok("HTTP/1.1")}

Redirected == rzombie /\ ~contains_acme_challenge(request.uri)
Routed == request.uri \in DOMAIN rmappings.routes

\* C13 (as stated): every well-formed request for a path absent from the
\* table gets a 404, and the task ends well once the 404 is written.
C13_Absent404 ==
    (Done /\ request.ok /\ ~Routed) =>
        /\ response.status = 404
        /\ delivered => rresult = "ok"

\* C13 (amended): the same for the requests that are not redirected, that
\* is on a task that is not in redirect mode or for a path holding the
\* challenge marker; the task ends well exactly when the 404 was written.
C13_Absent404UnlessRedirected ==
    (Done /\ request.ok /\ ~Routed /\ ~Redirected) =>
        /\ response = [NoAnswer EXCEPT !.status = 404]
        /\ lookups = 1
        /\ rresult = (IF delivered THEN "ok" ELSE "err")

\* a request with Host and Accept-Encoding for a path the site table does
\* not route got the 404 and the task ended well
C13_Witness ==
    /\ Done /\ request.ok /\ ~rzombie
    /\ request.uri = AcmePath(1)
    /\ rmappings = SiteTable({IndexPath, OldPath}, FALSE)
    /\ request.host = "example.org"
    /\ Len(request.accept.tokens) = MaxTokens
    /\ response.status = 404
    /\ rresult = "ok"

\* what a client reads that undoes the encoding Content-Encoding names
Decode(resp) ==
    IF content_encoding_of(resp.body.encoding) = resp.content_encoding
    THEN resp.body.data
    ELSE <<"undecodable", 0>>

\* the asset's uncompressed bytes: the cache entry, or the file
AssetBytes(table, path) ==
    IF table.caching /\ path \in DOMAIN table.file_cache
    THEN table.file_cache[path]
    ELSE FileData(path)

OfferedTexts == {trim(request.accept.tokens[i]) : i \in DOMAIN request.accept.tokens}

\* C15: the encoding chosen is gzip if gzip is among the tokens, else
\* deflate if deflate is, else none, in whatever order the tokens come and
\* also without the header; a 200 carries Content-Encoding exactly for gzip
\* and deflate, and its body is in the encoding chosen.
C15_Negotiation ==
    (rpc = "route" \/ (Done /\ lookups = 1)) =>
        LET chosen == first_encoding(encodings) IN
        /\ chosen = (IF "gzip" \in OfferedTexts THEN "Gzip"
                     ELSE IF "deflate" \in OfferedTexts THEN "Deflate"
                     ELSE "Uncompressed")
        /\ chosen = negotiate(OfferedTexts)
        /\ response.status = 200 =>
              /\ response.body.encoding = chosen
              /\ response.content_encoding =
                    (CASE chosen = "Gzip" -> "gzip" [] chosen = "Deflate" -> "deflate"
                       [] OTHER -> "")
        /\ response.status # 200 => response.content_encoding = ""

\* deflate came first and gzip, with blanks around it, last: gzip went out
C15_Witness ==
    /\ Done
    /\ Len(request.accept.tokens) = MaxTokens
    /\ request.accept.tokens[1] = [text |-> "deflate", padded |-> FALSE]
    /\ request.accept.tokens[MaxTokens] = [text |-> "gzip", padded |-> TRUE]
    /\ response.status = 200
    /\ response.content_encoding = "gzip"

\* C16: on a task in redirect mode a well-formed request for a path that is
\* not under /.well-known/acme-challenge/ gets a 301 to https://<Host><path>
\* and ends the task well without a route lookup; a request for a challenge
\* path is routed.
C16_RedirectAllOthers ==
    (Done /\ request.ok /\ rzombie) =>
        IF is_acme_challenge(request.uri)
        THEN response.status # 301 /\ lookups = 1
        ELSE /\ response.status = 301
             /\ response.location = <<"https://", request.host, request.uri>>
             /\ rresult = "ok"
             /\ lookups = 0

\* C17: when the file of a routed asset cannot be read as it is served, the
\* response is a 500.
C17_UnreadableGets500 ==
    (Done /\ request.ok /\ ~Redirected /\ Routed /\ ~rmappings.caching
        /\ response.status # 200)
    => response.status = 500

(***************************************************************************)
(* Claims checked under SpecCert.                                          *)
(***************************************************************************)
\* the three files are there, parse, and the certificate's expiry can be told
Persisted ==
    /\ \A p \in Paths : store[p].state = "pem"
    /\ store["cert"].datable

\* C20: when acquire_certificate finds a persisted bundle whose
\* days_till_expiry is 7 or less, it goes on to request_new_certificate
\* without returning; when the bundle's days_till_expiry is more than 7, it
\* returns that bundle, with no operation of the issuance performed and no
\* file written, and nothing happens afterwards.
C20_RenewalDecision ==
    /\ [][(kpc = "load" /\ Persisted /\ store["cert"].days <= 7)
            => (kpc' = "order" /\ kresult' = "none" /\ kcert' = NoCert)]_vars
    /\ [][(kpc = "load" /\ Persisted /\ store["cert"].days > 7)
            => /\ kpc' = "done"
               /\ kresult' = "ok"
               /\ kcert'.origin = "disk"
               /\ kcert'.days = store["cert"].days
               /\ issuance' = <<>>
               /\ store' = store]_vars
    /\ [](kcert.origin = "disk" => (issuance = <<>> /\ kpc = "done" /\ kresult = "ok"))
    /\ [][kpc = "done" => store' = store]_vars

\* a persisted bundle 7 days from expiry was passed over and the service
\* has issued a new certificate, not yet written
C20_Witness ==
    /\ Persisted
    /\ store["cert"].days = 7
    /\ kpc = "persist"
    /\ kcert.origin = "acme"
    /\ Len(issuance) > 0

\* the operations of the issuance before the k-th
Before(k) == {issuance[j] : j \in 1 .. (k - 1)}
SignalsBefore(k) == Cardinality({j \in 1 .. (k - 1) : issuance[j] = "signal"})

\* C21: every poll of the order comes after signal_challenge_ready for each
\* of the challenges; after a poll that saw Pending or Processing the next
\* operation is another poll; finalize_order comes right after a poll that
\* saw Ready or Valid, and the files are written only after finalize_order;
\* a poll that saw Invalid ends acquire_certificate with an error, with no
\* finalize_order, no certificate and no file written.
C21_OrderStateMachine ==
    /\ [](\A k \in 1 .. Len(issuance) :
            issuance[k] = "poll" => SignalsBefore(k) = NumDomains)
    /\ [](order_status \in {"Pending", "Processing"}
            => (kpc = "poll" \/ (kpc = "done" /\ kresult = "err")))
    /\ [][(order_status \in {"Pending", "Processing"} /\ issuance' # issuance /\ kpc = "poll")
            => issuance' = Append(issuance, "poll")]_vars
    /\ [](\A k \in 1 .. Len(issuance) :
            /\ issuance[k] = "finalize" =>
                  (k > 1 /\ issuance[k - 1] = "poll" /\ order_status \in {"Ready", "Valid"})
            /\ issuance[k] = "write" => "finalize" \in Before(k))
    /\ [](order_status = "Invalid"
            => /\ kpc = "done"
               /\ kresult = "err"
               /\ kcert = NoCert
               /\ \A k \in 1 .. Len(issuance) : issuance[k] \notin {"finalize", "write"})
    /\ [][(order_status' = "Invalid" \/ order_status = "Invalid") => store' = store]_vars

\* the order was found unfinished, polled again and found Invalid
C21_Witness ==
    /\ order_status = "Invalid"
    /\ polls > 0
    /\ kresult = "err"
    /\ Len(issuance) >= 2
    /\ issuance[Len(issuance)] = "poll"
    /\ issuance[Len(issuance) - 1] = "poll"

\* C23: the certificate acquire_certificate returns, loaded or issued, has
\* its leaf, its intermediate and its private key from one issuance.
C23_BundleAtomicity ==
    kcert.origin # "none" =>
        /\ kcert.public_cert = kcert.intermediate_cert
        /\ kcert.intermediate_cert = kcert.private_key

(***************************************************************************)
(* Claims checked under SpecHead.                                          *)
(***************************************************************************)
\* C25: all the answers to the same request against the same table and
\* cache are the same: the same status line and header lines in the same
\* order, and the same body.
C25_SameAnswer ==
    \A i, j \in 1 .. Len(answers) : answers[i] = answers[j]

(***************************************************************************)
(* Claims checked under SpecConn.                                          *)
(***************************************************************************)
\* C11: once 5 seconds have elapsed since the read started, a read that
\* would block makes the task return (a timeout error): the task does not
\* yield in the read again.
C11_ReadDeadline ==
    [][(cpc = "read" /\ timer >= REQUEST_READ_TIMEOUT_SECS) => cpc' # "read_yield"]_vars

\* C19: on a task with a TLS acceptor start_stream_process is entered only
\* out of a handshake call; a handshake that would block yields only while
\* fewer than 5 seconds have elapsed and is called again at the next
\* resume; from 5 seconds on the call either succeeds or ends the task with
\* an error; a task that ends in the handshake ends with an error, nothing
\* read and nothing written, and stays ended.
C19_TlsUpgrade ==
    /\ []((tls /\ cpc \in {"created", "hs", "hs_yield"}) => (status = 0 /\ left = 0))
    /\ [][(tls /\ cpc' = "read" /\ cpc \notin {"read", "read_yield"}) => cpc = "hs"]_vars
    /\ [][(cpc = "hs" /\ cpc' = "hs_yield") => timer < SSL_UPGRADE_TIMEOUT_SECS]_vars
    /\ [][(cpc = "hs_yield" /\ cpc' # cpc) => cpc' = "hs"]_vars
    /\ [][(cpc = "hs" /\ cpc' # cpc /\ timer >= SSL_UPGRADE_TIMEOUT_SECS)
            => (cpc' = "read" \/ (cpc' = "done" /\ cresult' = "err"))]_vars
    /\ [][(cpc = "hs" /\ cpc' = "done")
            => (cresult' = "err" /\ status' = 0 /\ left' = 0)]_vars
    /\ [][cpc = "done" => UNCHANGED <<cpc, cresult, status, left>>]_vars

\* a handshake that kept reporting would-block ended the task with an error
\* when 5 seconds had elapsed, nothing read and nothing written
C19_Witness ==
    /\ tls
    /\ cpc = "done"
    /\ cresult = "err"
    /\ timer = SSL_UPGRADE_TIMEOUT_SECS
    /\ status = 0
    /\ left = 0

(***************************************************************************)
(* Claims checked under FairSpecConn.                                      *)
(***************************************************************************)
\* C2: with the worker and the clock fair, the task reaches a terminal
\* state whatever the peer does.
C2_EveryTaskTerminates == <>(cpc = "done")

\* the handshake and the request read do end: the task returns or comes to
\* write a response
ReadAndHandshakeEnd == <>(cpc \in {"done", "write", "write_yield"})

=============================================================================
